---- MODULE Spec2Model ----
(***************************************************************************)
(* A model of the BMP and PNG decoders of src/codec:                       *)
(*   SkCodec_libbmp.cpp  (SkBmpCodec: header parse, colour table, the      *)
(*                        Standard, BitMask and RLE pixel engines)         *)
(*   SkCodec_libpng.cpp  (SkPngCodec: conversion rule, getPixels facade)   *)
(*                                                                         *)
(* Three specifications share the module:                                  *)
(*   SpecRLE    SkBmpCodec::decodeRLE, one action per kind of loop         *)
(*              iteration.  The bytes of the RLE buffer are drawn when     *)
(*              they are read: currByte only grows, so each index of the   *)
(*              buffer is read at most once and drawing it at the read is  *)
(*              the same as drawing the whole buffer up front.             *)
(*   SpecHeader SkBmpCodec::NewFromStream(stream, isIco).                  *)
(*   Spec       getPixels of both decoders and the row engines.            *)
(* SkASSERT is compiled out (release build).                               *)
(***************************************************************************)
EXTENDS Integers, Sequences, FiniteSets, TLC

VARIABLES
    \* ---- SkBmpCodec::decodeRLE ----
    rlePc,          \* "start" | "loop" | "done" ("idle": no decodeRLE call)
    rleResult,      \* "none" or the SkCodec::Result returned
    fBitsPerPixel,  \* decoder field
    fRowOrder,      \* decoder field
    fRLEBytes,      \* decoder field
    rleWidth,       \* dstInfo.width()
    rleHeight,      \* dstInfo.height()
    streamAvail,    \* bytes the stream can still deliver
    totalBytes,     \* bytes loaded into buffer
    currByte,       \* read cursor in buffer
    x, y,           \* cursor
    rleDst,         \* destination pixels, [row][column]
    written,        \* history: destination cells <<row, column>> written by a run
    oobWrite,       \* history: a pixel write fell outside the image
    lastOp,         \* history: the opcode handled by the last iteration
    numOps,         \* history: loop iterations run so far
    \* ---- SkBmpCodec::NewFromStream ----
    hdrPc,          \* "start" | "done" ("idle": no factory call)
    header,         \* the stream's header fields, and the factory called
    codec,          \* the decoder returned, or NULL
    \* ---- getPixels ----
    gpPc,           \* "ready" | "rle" (in decodeRLE) | "returned" | "idle"
    fNeedsRewind,   \* SkCodec field
    rewindable,     \* the stream can rewind
    streamPos,      \* position of the stream
    gpCall,         \* history: the arguments of the last call
    gpResult,       \* the SkCodec::Result of the last call
    gpDst,          \* the destination buffer of the last call, [row][column]
    colorPass,      \* history: the destination as the colour rows left it
    engineLog,      \* history: what the row engine of the last call did
    andBits,        \* the AND mask an ICO image holds, [input row][column]
    fColorTableSet, \* fColorTable is not NULL
    colorTable,     \* history: the table the last call built and the bytes read for it
    fReallyHasAlpha, \* SkPngCodec field
    fSrcConfig,     \* SkPngCodec field
    tableBuilt,     \* history: the last call built a colour table
    swizzlerBuilt,  \* history: the last call built a swizzler
    numCalls,       \* history: getPixels calls made
    \* ---- SkPngCodec::NewFromStream, ~SkPngCodec, SkPngScanlineDecoder ----
    pngPc,          \* "start" | "null" (no decoder) | "codec" | "deleted" | "idle"
    pngStruct,      \* the png_struct: "none" | "live" | "destroyed"
    infoStruct,     \* the png_info: "none" | "live" | "destroyed"
    pngDestroys,    \* history: times the png_struct was destroyed
    infoDestroys,   \* history: times the png_info was destroyed
    factoryLog,     \* history: how the factory call went
    scan,           \* the scanline decoder, its fields
    scanCall,       \* history: the last call on the decoder or its scanline decoder
    rowsConsumed,   \* rows of the image libpng has read
    rowsAsked,      \* history: rows the calls on the scanline decoder asked for
    producedAlpha,  \* history: getScanlines produced a row that is not opaque
    scanOps         \* history: calls made on the scanline decoder

rleVars == <<rlePc, rleResult, fBitsPerPixel, fRowOrder, fRLEBytes, rleWidth,
             rleHeight, streamAvail, totalBytes, currByte, x, y, rleDst,
             written, oobWrite, lastOp, numOps>>

hdrVars == <<hdrPc, header, codec>>

gpVars == <<gpPc, fNeedsRewind, rewindable, streamPos, gpCall, gpResult, gpDst,
            colorPass, engineLog, andBits, fColorTableSet, colorTable,
            fReallyHasAlpha, fSrcConfig, tableBuilt, swizzlerBuilt,
            numCalls>>

pngVars == <<pngPc, pngStruct, infoStruct, pngDestroys, infoDestroys,
             factoryLog, scan, scanCall, rowsConsumed, rowsAsked,
             producedAlpha, scanOps>>

vars == <<rleVars, hdrVars, gpVars, pngVars>>

\* ------------------------------------------------------------------------
\* Bounds
\* ------------------------------------------------------------------------
MaxWidth == 5
MaxHeight == 2
MaxRLEBytes == 12
MaxOps == 2          \* loop iterations of decodeRLE that are explored

\* The byte values an RLE buffer is drawn from: the escape / end-of-line
\* byte, the end-of-file and delta codes, and two absolute-run lengths (3
\* and 5) that also serve as run lengths, deltas and colour indices.
Bytes == {0, 1, 2, 3, 5}

\* The values of the bytes that carry pixel data only (the data of an
\* absolute run, the green and red byte of an RLE24 run): 0x01 and 0x10,
\* so both nibbles of a bpp-4 data byte are seen with both values.
DataBytes == {1, 16}

\* A packed 32-bit pixel is the tuple <<a, r, g, b>> of its four channels
\* (TLC's integers are 32-bit signed, 0xFF000000 does not fit).
Garbage == <<222, 173, 190, 239>>    \* an uninitialised destination pixel
ZeroPixel == <<0, 0, 0, 0>>          \* 0x00000000

\* ------------------------------------------------------------------------
\* Arithmetic helpers
\* ------------------------------------------------------------------------
Min(a, b) == IF a < b THEN a ELSE b

\* An int converted to uint32_t.  A negative value wraps to at least
\* 2^32 - 2^31; the model writes the largest integer TLC has for it, which
\* like the wrapped value exceeds every byte count it is compared with.
U32(n) == IF n < 0 THEN 2147483647 ELSE n

\* SkPackARGB32NoCheck: a packed 32-bit colour
SkPackARGB32NoCheck(a, r, g, b) == <<a, r, g, b>>

\* ceil(width * bitsPerPixel / 8)
compute_row_bytes(width, bitsPerPixel) ==
    IF bitsPerPixel < 16
        THEN LET pixelsPerByte == 8 \div bitsPerPixel
             IN (width + pixelsPerByte - 1) \div pixelsPerByte
        ELSE width * (bitsPerPixel \div 8)

SkAlign2(n) == ((n + 1) \div 2) * 2
SkIsAlign2(n) == n % 2 = 0
SkAlign4(n) == ((n + 3) \div 4) * 4

\* ------------------------------------------------------------------------
\* Row orders, results
\* ------------------------------------------------------------------------
kTopDown_RowOrder == "kTopDown"
kBottomUp_RowOrder == "kBottomUp"
RowOrders == {kTopDown_RowOrder, kBottomUp_RowOrder}

kSuccess == "kSuccess"
kIncompleteInput == "kIncompleteInput"
kInvalidInput == "kInvalidInput"
kCouldNotRewind == "kCouldNotRewind"
kInvalidScale == "kInvalidScale"
kInvalidConversion == "kInvalidConversion"
kUnimplemented == "kUnimplemented"

RLE_ESCAPE == 0
RLE_EOL == 0
RLE_EOF == 1
RLE_DELTA == 2

\* ------------------------------------------------------------------------
\* The colour table the RLE engine looks indices up in (bpp 4 and 8).
\* A table of two colours read from the file (numColors = 2); createColorTable
\* fills the entries from numColors up to 2^bpp with opaque black.
\* ------------------------------------------------------------------------
RleColorTable(index) ==
    IF index = 0 THEN SkPackARGB32NoCheck(255, 255, 0, 0)
    ELSE IF index = 1 THEN SkPackARGB32NoCheck(255, 0, 0, 255)
    ELSE SkPackARGB32NoCheck(255, 0, 0, 0)

\* ------------------------------------------------------------------------
\* setRLEPixel / setRLE24Pixel: the destination row of cursor row yy
\* ------------------------------------------------------------------------
RleRow(yy) == IF fRowOrder = kBottomUp_RowOrder THEN rleHeight - yy - 1 ELSE yy

InImage(row, col) == row >= 0 /\ row < rleHeight /\ col >= 0 /\ col < rleWidth

\* dst after writing colour at (xx, yy); a write outside the image is not
\* stored (it lands outside the modelled buffer); oobWrite records it.
setPixel(d, xx, yy, colour) ==
    IF InImage(RleRow(yy), xx)
        THEN [d EXCEPT ![RleRow(yy)][xx] = colour]
        ELSE d

setRLEPixel(d, xx, yy, index) == setPixel(d, xx, yy, RleColorTable(index))

setRLE24Pixel(d, xx, yy, red, green, blue) ==
    setPixel(d, xx, yy, SkPackARGB32NoCheck(255, red, green, blue))

\* (int) totalBytes - currByte, evaluated in unsigned 32-bit arithmetic
BytesLeft(cb) == U32(totalBytes - cb)

NoOp == [kind |-> "none", flag |-> 0, task |-> 0, x0 |-> 0, y0 |-> 0,
         c0 |-> 0, dx |-> 0, dy |-> 0, count |-> 0, ok |-> TRUE]

\* ------------------------------------------------------------------------
\* SkBmpCodec::NewFromStream(stream, isIco): the header parse
\* ------------------------------------------------------------------------
NULL == [kind |-> "NULL"]

\* the parts of the model that are not running
HdrIdle == hdrPc = "idle" /\ header = NULL /\ codec = NULL

NoCall == [kind |-> "none"]
NoBits == <<>>
NoTable == [entries |-> <<>>, read |-> 0]

GpIdle ==
    /\ gpPc = "idle"
    /\ fNeedsRewind = FALSE
    /\ rewindable = FALSE
    /\ streamPos = 0
    /\ gpCall = NoCall
    /\ gpResult = "none"
    /\ gpDst = <<>>
    /\ colorPass = <<>>
    /\ engineLog = [engine |-> "none", data |-> <<>>, rows |-> <<>>,
                    andRows |-> <<>>, opaqueRows |-> <<>>, first |-> <<>>,
                    short |-> FALSE, start |-> -1]
    /\ andBits = NoBits
    /\ fColorTableSet = FALSE
    /\ colorTable = NoTable
    /\ fReallyHasAlpha = FALSE
    /\ fSrcConfig = "kUnknown"
    /\ tableBuilt = FALSE
    /\ swizzlerBuilt = FALSE
    /\ numCalls = 0

NoScan == [live |-> FALSE]
NoScanCall == [op |-> "none"]
NoFactory == [event |-> "none"]

PngIdle ==
    /\ pngPc = "idle"
    /\ pngStruct = "none"
    /\ infoStruct = "none"
    /\ pngDestroys = 0
    /\ infoDestroys = 0
    /\ factoryLog = NoFactory
    /\ scan = NoScan
    /\ scanCall = NoScanCall
    /\ rowsConsumed = 0
    /\ rowsAsked = 0
    /\ producedAlpha = FALSE
    /\ scanOps = 0

RleIdle ==
    /\ rlePc = "idle"
    /\ rleResult = "none"
    /\ fBitsPerPixel = 0
    /\ fRowOrder = kBottomUp_RowOrder
    /\ fRLEBytes = 0
    /\ rleWidth = 0
    /\ rleHeight = 0
    /\ streamAvail = 0
    /\ totalBytes = 0
    /\ currByte = 0
    /\ x = 0
    /\ y = 0
    /\ rleDst = <<>>
    /\ written = {}
    /\ oobWrite = FALSE
    /\ lastOp = NoOp
    /\ numOps = 0

IntMin == -2147483647 - 1
IntMax == 2147483647

kBmpHeaderBytes == 14
kBmpHeaderBytesPlusFour == 18
kBmpOS2V1Bytes == 12
kBmpOS2V2Bytes == 64
kBmpInfoBaseBytes == 16
kBmpInfoV1Bytes == 40
kBmpInfoV2Bytes == 52
kBmpInfoV3Bytes == 56
kBmpInfoV4Bytes == 108
kBmpInfoV5Bytes == 124
kBmpMaskBytes == 12
kBmpMaxDim == 65536

kNone_BitmapCompressionMethod == 0
k8BitRLE_BitmapCompressionMethod == 1
k4BitRLE_BitmapCompressionMethod == 2
kBitMasks_BitmapCompressionMethod == 3
kJpeg_BitmapCompressionMethod == 4
kPng_BitmapCompressionMethod == 5
kAlphaBitMasks_BitmapCompressionMethod == 6
kCMYK_BitmapCompressionMethod == 11
kCMYK8BitRLE_BitmapCompressionMethod == 12
kCMYK4BitRLE_BitmapCompressionMethod == 13

kOpaque_SkAlphaType == "kOpaque"
kPremul_SkAlphaType == "kPremul"
kUnpremul_SkAlphaType == "kUnpremul"
AlphaTypes == {kOpaque_SkAlphaType, kPremul_SkAlphaType, kUnpremul_SkAlphaType}

kN32_SkColorType == "kN32"
kAlpha_8_SkColorType == "kAlpha_8"
kRGB_565_SkColorType == "kRGB_565"
ColorTypes == {kN32_SkColorType, kAlpha_8_SkColorType, kRGB_565_SkColorType}

kLinear_SkColorProfileType == "kLinear"
kSRGB_SkColorProfileType == "kSRGB"
ProfileTypes == {kLinear_SkColorProfileType, kSRGB_SkColorProfileType}

kStandard_BitmapInputFormat == "kStandard"
kRLE_BitmapInputFormat == "kRLE"
kBitMask_BitmapInputFormat == "kBitMask"
kUnknown_BitmapInputFormat == "kUnknown"

\* lines 214-286: the header variant selected by the size of the info header
HeaderTypeOf(infoBytes) ==
    IF infoBytes >= kBmpInfoBaseBytes
        THEN CASE infoBytes = kBmpInfoV1Bytes -> "kInfoV1"
               [] infoBytes = kBmpInfoV2Bytes -> "kInfoV2"
               [] infoBytes = kBmpInfoV3Bytes -> "kInfoV3"
               [] infoBytes = kBmpInfoV4Bytes -> "kInfoV4"
               [] infoBytes = kBmpInfoV5Bytes -> "kInfoV5"
               [] infoBytes \in {16, 20, 24, 28, 32, 36, 42, 46, 48, 60,
                                 kBmpOS2V2Bytes} -> "kOS2VX"
               [] OTHER -> "kUnknown"
        ELSE IF infoBytes >= kBmpOS2V1Bytes THEN "kOS2V1" ELSE "none"

\* A 32-bit mask is the set of its bit positions (0 = least significant).
NoMask == {}
NoMasks == [red |-> NoMask, green |-> NoMask, blue |-> NoMask, alpha |-> NoMask]

\* SkMasks::CreateMasks: fails when a mask has non-contiguous bits, when two
\* masks overlap, or when a mask lies outside [0, 2^bpp)
Contiguous(mask) ==
    \A i \in mask, j \in mask : \A k \in 0..31 : (i < k /\ k < j) => k \in mask

CreateMasks(inputMasks, bitsPerPixel) ==
    IF /\ \A ch \in {"red", "green", "blue", "alpha"} :
             /\ Contiguous(inputMasks[ch])
             /\ \A i \in inputMasks[ch] : i < bitsPerPixel
       /\ \A c1, c2 \in {"red", "green", "blue", "alpha"} :
             c1 # c2 => inputMasks[c1] \cap inputMasks[c2] = {}
        THEN inputMasks
        ELSE NULL

\* a 16-bit field read by get_short
U16(n) == n % 65536

\* int division, truncating toward zero
DivTrunc(a, b) ==
    LET q == a \div b IN IF a >= 0 \/ q * b = a THEN q ELSE q + 1

\* line 291, height = -height: negating INT_MIN overflows a signed int, which
\* is undefined; the outcomes tried are the wrapped value and the two ends of
\* the non-negative range
NegateOutcomes(h) == IF h = IntMin THEN {IntMin, 0, IntMax} ELSE {-h}

\* lines 136-184: the first reads; what is left of the stream after them, or
\* NULL when the factory returns NULL there
FirstHeaderBytes(isIco) == IF isIco THEN 4 ELSE kBmpHeaderBytesPlusFour

\* lines 313-396: compression dispatch.  The result is NULL or
\* [format, bpp, maskBytes, masks]
CompressionDispatch(h, headerType, compression, bitsPerPixel) ==
    CASE compression = kNone_BitmapCompressionMethod ->
            [format |-> kStandard_BitmapInputFormat, bpp |-> bitsPerPixel,
             maskBytes |-> 0, masks |-> NoMasks]
      [] compression = k8BitRLE_BitmapCompressionMethod ->
            [format |-> kRLE_BitmapInputFormat, bpp |-> 8,
             maskBytes |-> 0, masks |-> NoMasks]
      [] compression = k4BitRLE_BitmapCompressionMethod ->
            [format |-> kRLE_BitmapInputFormat, bpp |-> 4,
             maskBytes |-> 0, masks |-> NoMasks]
      [] compression \in {kAlphaBitMasks_BitmapCompressionMethod,
                          kBitMasks_BitmapCompressionMethod} ->
            CASE headerType = "kInfoV1" ->
                    IF h.streamLen - FirstHeaderBytes(h.isIco) - (h.infoBytes - 4)
                           < kBmpMaskBytes
                        THEN NULL
                        ELSE [format |-> kBitMask_BitmapInputFormat,
                              bpp |-> bitsPerPixel, maskBytes |-> kBmpMaskBytes,
                              masks |-> [NoMasks EXCEPT !.red = h.masks.red,
                                                        !.green = h.masks.green,
                                                        !.blue = h.masks.blue]]
              [] headerType \in {"kInfoV2", "kInfoV3", "kInfoV4", "kInfoV5"} ->
                    [format |-> kBitMask_BitmapInputFormat,
                     bpp |-> bitsPerPixel, maskBytes |-> 0,
                     masks |-> [NoMasks EXCEPT !.red = h.masks.red,
                                               !.green = h.masks.green,
                                               !.blue = h.masks.blue]]
              [] OTHER -> NULL
      [] compression = kJpeg_BitmapCompressionMethod /\ bitsPerPixel = 24 ->
            [format |-> kRLE_BitmapInputFormat, bpp |-> bitsPerPixel,
             maskBytes |-> 0, masks |-> NoMasks]
      [] OTHER -> NULL

\* lines 407-424: the alpha mask and the default alpha type
ReadsAlphaMask(headerType, isIco) ==
    (headerType = "kInfoV3" /\ isIco) \/ headerType = "kInfoV4"
        \/ headerType = "kInfoV5"

AlphaMaskOf(h, headerType) ==
    IF ReadsAlphaMask(headerType, h.isIco) THEN h.masks.alpha ELSE NoMask

DefaultAlphaType_AnyMask(h, headerType, bitsPerPixel) ==
    IF h.isIco /\ bitsPerPixel = 32 THEN kUnpremul_SkAlphaType
    ELSE IF ReadsAlphaMask(headerType, h.isIco)
        THEN kUnpremul_SkAlphaType
    ELSE kOpaque_SkAlphaType

\* lines 407-424
DefaultAlphaType(h, headerType, bitsPerPixel) ==
    IF h.isIco /\ bitsPerPixel = 32 THEN kUnpremul_SkAlphaType
    ELSE IF ReadsAlphaMask(headerType, h.isIco) /\ h.masks.alpha # NoMask
        THEN kUnpremul_SkAlphaType
    ELSE kOpaque_SkAlphaType

Masks555_As565 ==
    [red |-> 11..15, green |-> 5..10, blue |-> 0..4, alpha |-> NoMask]

\* the 555 masks of line 435-437
Masks555 == [red |-> 10..14, green |-> 5..9, blue |-> 0..4, alpha |-> NoMask]

\* line 300: the dimension check
DimensionsRejected(width, height) ==
    width < 0 \/ width >= kBmpMaxDim \/ height >= kBmpMaxDim

\* lines 112-485.  h is the content of the stream, negated is the outcome of
\* height = -height
NewFromStream(h, negated) ==
    LET isIco == h.isIco
        totalBytes0 == IF isIco THEN 0 ELSE h.totalBytes
        offset == IF isIco THEN 0 ELSE h.offset
        infoBytes == h.infoBytes
        infoBytesRemaining == infoBytes - 4
        headerType == HeaderTypeOf(infoBytes)
        base == infoBytes >= kBmpInfoBaseBytes
        width == IF base THEN h.width ELSE U16(h.width)
        height0 == IF base THEN h.height ELSE U16(h.height)
        bitsPerPixel0 == h.bitsPerPixel
        compression == IF base /\ infoBytesRemaining >= 16
                          THEN h.compression
                          ELSE kNone_BitmapCompressionMethod
        numColors == IF base /\ infoBytesRemaining >= 32 THEN h.numColors ELSE 0
        bytesPerColor == IF base THEN 4 ELSE 3
        rowOrder == IF height0 < 0 THEN kTopDown_RowOrder ELSE kBottomUp_RowOrder
        height1 == IF height0 < 0 THEN negated ELSE height0
        height == IF isIco THEN DivTrunc(height1, 2) ELSE height1
        disp == CompressionDispatch(h, headerType, compression, bitsPerPixel0)
    IN  IF h.streamLen < FirstHeaderBytes(isIco) THEN NULL
        ELSE IF ~isIco /\ offset < kBmpHeaderBytes + kBmpOS2V1Bytes THEN NULL
        ELSE IF infoBytes < kBmpOS2V1Bytes THEN NULL
        ELSE IF h.streamLen - FirstHeaderBytes(isIco) < infoBytesRemaining THEN NULL
        ELSE IF DimensionsRejected(width, height) THEN NULL
        ELSE IF disp = NULL THEN NULL
        ELSE LET alphaMask == AlphaMaskOf(h, headerType)
                 alphaType == DefaultAlphaType(h, headerType, disp.bpp)
                 promote == disp.bpp = 16 /\ disp.format # kBitMask_BitmapInputFormat
                 inputFormat == IF promote THEN kBitMask_BitmapInputFormat
                                           ELSE disp.format
                 rgb == IF promote THEN Masks555 ELSE disp.masks
                 inputMasks == [rgb EXCEPT !.alpha = alphaMask]
                 masks == CreateMasks(inputMasks, disp.bpp)
                 bytesRead == kBmpHeaderBytes + infoBytes + disp.maskBytes
             IN IF disp.bpp \notin {1, 2, 4, 8, 16, 24, 32} THEN NULL
                ELSE IF masks = NULL THEN NULL
                ELSE IF totalBytes0 <= offset /\ inputFormat = kRLE_BitmapInputFormat
                    THEN NULL
                ELSE IF ~isIco /\ offset < bytesRead THEN NULL
                ELSE [kind |-> "bmp", width |-> width, height |-> height,
                      colorType |-> kN32_SkColorType, alphaType |-> alphaType,
                      profileType |-> kLinear_SkColorProfileType,
                      fBitsPerPixel |-> disp.bpp, fInputFormat |-> inputFormat,
                      fMasks |-> masks, fNumColors |-> numColors,
                      fBytesPerColor |-> bytesPerColor,
                      fOffset |-> U32(offset - bytesRead),
                      fRowOrder |-> rowOrder,
                      fRLEBytes |-> U32(totalBytes0 - offset),
                      fIsIco |-> isIco]

\* ------------------------------------------------------------------------
\* SkBmpCodec::decodeRLE
\* ------------------------------------------------------------------------
Op(kind, flag, task, c0, dx, dy, count, ok) ==
    [kind |-> kind, flag |-> flag, task |-> task, x0 |-> x, y0 |-> y,
     c0 |-> c0, dx |-> dx, dy |-> dy, count |-> count, ok |-> ok]

\* the loop goes round again
RleContinue(op) ==
    /\ rlePc' = "loop"
    /\ rleResult' = "none"
    /\ lastOp' = op
    /\ numOps' = numOps + 1

\* decodeRLE returns res
RleReturn(res, op) ==
    /\ rlePc' = "done"
    /\ rleResult' = res
    /\ lastOp' = op
    /\ numOps' = numOps + 1

RleConfigUnchanged ==
    UNCHANGED <<fBitsPerPixel, fRowOrder, fRLEBytes, rleWidth, rleHeight,
                streamAvail, totalBytes, hdrVars, gpVars,
                pngVars>>

\* mutant of ZeroDst: the destination is not cleared
ZeroDst_Skipped == rleDst

\* line 821: memset(dst, 0, dstRowBytes * height)
ZeroDst == [r \in 0..(rleHeight - 1) |-> [c \in 0..(rleWidth - 1) |-> ZeroPixel]]

\* lines 805-822: load the buffer, reject an empty one, zero the destination
decodeRLE_Begin ==
    /\ rlePc = "start"
    /\ LET got == Min(fRLEBytes, streamAvail)
       IN /\ totalBytes' = got
          /\ streamAvail' = streamAvail - got
          /\ IF ~(got < fRLEBytes) /\ got <= 0
                THEN /\ rlePc' = "done"
                     /\ rleResult' = kInvalidInput
                     /\ UNCHANGED rleDst
                ELSE /\ rlePc' = "loop"
                     /\ rleResult' = "none"
                     /\ rleDst' = ZeroDst
    /\ currByte' = 0
    /\ x' = 0
    /\ y' = 0
    /\ UNCHANGED <<fBitsPerPixel, fRowOrder, fRLEBytes, rleWidth, rleHeight,
                   written, oobWrite, lastOp, numOps, hdrVars, gpVars,
                   pngVars>>

\* lines 826-829: fewer than two bytes are left for the next pair
decodeRLE_Incomplete ==
    /\ rlePc = "loop"
    /\ BytesLeft(currByte) < 2
    /\ RleReturn(kIncompleteInput, Op("short", 0, 0, currByte, 0, 0, 0, FALSE))
    /\ RleConfigUnchanged
    /\ UNCHANGED <<currByte, x, y, rleDst, written, oobWrite>>

\* lines 835-836: a pair can be read
CanReadPair == rlePc = "loop" /\ numOps < MaxOps /\ ~(BytesLeft(currByte) < 2)

\* mutant of BeyondImage: the row test is off by one
BeyondImage_OffByOne(flag, task) ==
    y > rleHeight /\ (flag # RLE_ESCAPE \/ task # RLE_EOF)

\* line 840: the cursor row is beyond the image and the pair is not EOF
BeyondImage(flag, task) ==
    y >= rleHeight /\ (flag # RLE_ESCAPE \/ task # RLE_EOF)

\* lines 840-843
decodeRLE_BeyondImage(flag, task) ==
    /\ CanReadPair
    /\ BeyondImage(flag, task)
    /\ currByte' = currByte + 2
    /\ RleReturn(kIncompleteInput,
                 Op("beyond", flag, task, currByte, 0, 0, 0, FALSE))
    /\ RleConfigUnchanged
    /\ UNCHANGED <<x, y, rleDst, written, oobWrite>>

\* lines 848-851
decodeRLE_EndOfLine(flag, task) ==
    /\ CanReadPair
    /\ ~BeyondImage(flag, task)
    /\ flag = RLE_ESCAPE /\ task = RLE_EOL
    /\ currByte' = currByte + 2
    /\ x' = 0
    /\ y' = y + 1
    /\ RleContinue(Op("eol", flag, task, currByte, 0, 0, 0, TRUE))
    /\ RleConfigUnchanged
    /\ UNCHANGED <<rleDst, written, oobWrite>>

\* lines 852-853
decodeRLE_EndOfFile(flag, task) ==
    /\ CanReadPair
    /\ ~BeyondImage(flag, task)
    /\ flag = RLE_ESCAPE /\ task = RLE_EOF
    /\ currByte' = currByte + 2
    /\ RleReturn(kSuccess, Op("eof", flag, task, currByte, 0, 0, 0, TRUE))
    /\ RleConfigUnchanged
    /\ UNCHANGED <<x, y, rleDst, written, oobWrite>>

\* mutant of DeltaInBounds: a delta onto the edge is rejected
DeltaInBounds_Strict(nx, ny) == ~(nx >= rleWidth \/ ny >= rleHeight)

\* line 865: the bounds check of a delta
DeltaInBounds(nx, ny) == ~(nx > rleWidth \/ ny > rleHeight)

\* lines 854-870
decodeRLE_Delta(flag, task) ==
    /\ CanReadPair
    /\ ~BeyondImage(flag, task)
    /\ flag = RLE_ESCAPE /\ task = RLE_DELTA
    /\ IF BytesLeft(currByte + 2) < 2
          THEN /\ currByte' = currByte + 2
               /\ RleReturn(kIncompleteInput,
                            Op("delta-short", flag, task, currByte, 0, 0, 0, FALSE))
               /\ UNCHANGED <<x, y>>
          ELSE \E dx \in Bytes, dy \in Bytes :
               /\ currByte' = currByte + 4
               /\ x' = x + dx
               /\ y' = y + dy
               /\ IF DeltaInBounds(x + dx, y + dy)
                     THEN RleContinue(Op("delta", flag, task, currByte, dx, dy, 0, TRUE))
                     ELSE RleReturn(kIncompleteInput,
                                    Op("delta", flag, task, currByte, dx, dy, 0, FALSE))
    /\ RleConfigUnchanged
    /\ UNCHANGED <<rleDst, written, oobWrite>>

\* lines 888-922, case 4: one byte carries two pixels, high nibble first
RECURSIVE AbsPixels4(_, _, _, _, _)
AbsPixels4(d, xx, numPixels, data, i) ==
    IF numPixels > 0
        THEN LET val == data[i]
                 d1 == setRLEPixel(d, xx, y, val \div 16)
             IN IF numPixels - 1 # 0
                   THEN AbsPixels4(setRLEPixel(d1, xx + 1, y, val % 16),
                                   xx + 2, numPixels - 2, data, i + 1)
                   ELSE d1
        ELSE d

\* lines 888-922, case 8: one index byte per pixel
RECURSIVE AbsPixels8(_, _, _, _, _)
AbsPixels8(d, xx, numPixels, data, i) ==
    IF numPixels > 0
        THEN AbsPixels8(setRLEPixel(d, xx, y, data[i]), xx + 1,
                        numPixels - 1, data, i + 1)
        ELSE d

\* the destination cells of columns from..(to - 1) of cursor row y
RowCells(from, to) == {<<RleRow(y), c>> : c \in from..(to - 1)}

AnyOutside(from, to) == \E c \in from..(to - 1) : ~InImage(RleRow(y), c)

\* mutant of AbsPadding: the padding byte is never skipped
AbsPadding_Never(rowBytes) == 0

\* line 924-926: the padding byte of an absolute run
AbsPadding(rowBytes) == IF ~SkIsAlign2(rowBytes) THEN 1 ELSE 0

\* lines 909-920, case 24: the case has no break, so after its first pixel
\* control falls into default and decodeRLE returns kInvalidInput
Abs24FallsThrough == TRUE

\* the bytes of the buffer the pixel loop of an absolute run reads: all
\* rowBytes of them at bpp 4 and 8, the three of the first pixel at bpp 24
AbsBytesRead(rowBytes) == IF fBitsPerPixel = 24 THEN 3 ELSE rowBytes

\* mutant of AbsOffEdge: a run may pass the edge of the row by one pixel
AbsOffEdge_ByOne(numPixels) == x + numPixels > rleWidth + 1

\* line 883: the absolute run would move the cursor off the edge of the image
AbsOffEdge(numPixels) == x + numPixels > rleWidth

\* mutant of AbsBytesShort: the padding byte is not counted
AbsBytesShort_Unpadded(c2, rowBytes) == BytesLeft(c2) < rowBytes

\* line 884: fewer bytes are left than the run and its padding take
AbsBytesShort(c2, rowBytes) == BytesLeft(c2) < SkAlign2(rowBytes)

\* lines 871-928
decodeRLE_Absolute(flag, task) ==
    /\ CanReadPair
    /\ ~BeyondImage(flag, task)
    /\ flag = RLE_ESCAPE /\ task \notin {RLE_EOL, RLE_EOF, RLE_DELTA}
    /\ LET numPixels == task
           rowBytes == compute_row_bytes(numPixels, fBitsPerPixel)
           c2 == currByte + 2
       IN IF AbsOffEdge(numPixels) \/ AbsBytesShort(c2, rowBytes)
             THEN /\ currByte' = c2
                  /\ RleReturn(kIncompleteInput,
                               Op("absolute", flag, task, currByte, 0, 0, 0, FALSE))
                  /\ UNCHANGED <<x, rleDst, written, oobWrite>>
             ELSE \E data \in [0..(AbsBytesRead(rowBytes) - 1) -> DataBytes] :
                  CASE fBitsPerPixel = 4 ->
                        /\ rleDst' = AbsPixels4(rleDst, x, numPixels, data, 0)
                        /\ x' = x + numPixels
                        /\ currByte' = c2 + rowBytes + AbsPadding(rowBytes)
                        /\ written' = written \cup RowCells(x, x + numPixels)
                        /\ oobWrite' = (oobWrite \/ AnyOutside(x, x + numPixels))
                        /\ RleContinue(Op("absolute", flag, task, currByte,
                                          0, 0, numPixels, TRUE))
                    [] fBitsPerPixel = 8 ->
                        /\ rleDst' = AbsPixels8(rleDst, x, numPixels, data, 0)
                        /\ x' = x + numPixels
                        /\ currByte' = c2 + rowBytes + AbsPadding(rowBytes)
                        /\ written' = written \cup RowCells(x, x + numPixels)
                        /\ oobWrite' = (oobWrite \/ AnyOutside(x, x + numPixels))
                        /\ RleContinue(Op("absolute", flag, task, currByte,
                                          0, 0, numPixels, TRUE))
                    [] fBitsPerPixel = 24 /\ Abs24FallsThrough ->
                        /\ rleDst' = setRLE24Pixel(rleDst, x, y, data[2],
                                                   data[1], data[0])
                        /\ x' = x + 1
                        /\ currByte' = c2 + 3
                        /\ written' = written \cup RowCells(x, x + 1)
                        /\ oobWrite' = (oobWrite \/ AnyOutside(x, x + 1))
                        /\ RleReturn(kInvalidInput,
                                     Op("absolute", flag, task, currByte,
                                        0, 0, 1, FALSE))
                    [] OTHER ->
                        /\ RleReturn(kInvalidInput,
                                     Op("absolute", flag, task, currByte,
                                        0, 0, 0, FALSE))
                        /\ currByte' = c2
                        /\ UNCHANGED <<x, rleDst, written, oobWrite>>
    /\ y' = y
    /\ RleConfigUnchanged

\* lines 959-963: the two colour indices of an encoded run
RunIndices(task) ==
    IF fBitsPerPixel = 4 THEN <<task \div 16, task % 16>> ELSE <<task, task>>

\* lines 966-970
RECURSIVE RunPixels(_, _, _, _, _)
RunPixels(d, xx, endX, which, indices) ==
    IF xx < endX
        THEN RunPixels(setRLEPixel(d, xx, y, indices[which + 1]), xx + 1, endX,
                       1 - which, indices)
        ELSE d

\* lines 949-952
RECURSIVE Run24Pixels(_, _, _, _, _, _)
Run24Pixels(d, xx, endX, red, green, blue) ==
    IF xx < endX
        THEN Run24Pixels(setRLE24Pixel(d, xx, y, red, green, blue), xx + 1,
                         endX, red, green, blue)
        ELSE d

\* mutant of RunEndX: the run is not clipped to the row
RunEndX_Unclipped(numPixels) == x + numPixels

\* line 934
RunEndX(numPixels) == Min(x + numPixels, rleWidth)

\* lines 930-972
decodeRLE_Run(flag, task) ==
    /\ CanReadPair
    /\ ~BeyondImage(flag, task)
    /\ flag # RLE_ESCAPE
    /\ LET numPixels == flag
           endX == RunEndX(numPixels)
           c2 == currByte + 2
           \* the for / while loops leave x alone when x >= endX
           newX == IF x < endX THEN endX ELSE x
       IN IF fBitsPerPixel = 24
             THEN IF BytesLeft(c2) < 2
                     THEN /\ currByte' = c2
                          /\ RleReturn(kIncompleteInput,
                                       Op("run-short", flag, task, currByte,
                                          0, 0, 0, FALSE))
                          /\ UNCHANGED <<x, rleDst, written, oobWrite>>
                     ELSE \E green \in DataBytes, red \in DataBytes :
                          /\ currByte' = c2 + 2
                          /\ rleDst' = Run24Pixels(rleDst, x, endX, red, green, task)
                          /\ x' = newX
                          /\ written' = written \cup RowCells(x, endX)
                          /\ oobWrite' = (oobWrite \/ AnyOutside(x, endX))
                          /\ RleContinue(Op("run", flag, task, currByte, 0, 0,
                                            newX - x, TRUE))
             ELSE /\ currByte' = c2
                  /\ rleDst' = RunPixels(rleDst, x, endX, 0, RunIndices(task))
                  /\ x' = newX
                  /\ written' = written \cup RowCells(x, endX)
                  /\ oobWrite' = (oobWrite \/ AnyOutside(x, endX))
                  /\ RleContinue(Op("run", flag, task, currByte, 0, 0,
                                    newX - x, TRUE))
    /\ y' = y
    /\ RleConfigUnchanged

\* ------------------------------------------------------------------------
\* The state on entry to decodeRLE: a decoder the header parse can build
\* (inputFormat RLE: bpp 4, 8 or 24, RLEBytes > 0), a destination buffer
\* holding whatever the caller left in it, a stream of any length.
\* ------------------------------------------------------------------------
\* The stream lengths tried: nothing, less than a pair, a pair and half a
\* delta, a pair and three bytes of an absolute run without its padding
\* byte, and all fRLEBytes bytes.
StreamLengths == {0, 1, 3, 5, MaxRLEBytes}

\* The image sizes tried, <<width, height>>: without columns, without rows,
\* 2 columns by MaxHeight rows, MaxWidth columns by one row.
RleShapes == {<<0, 1>>, <<2, 0>>, <<2, MaxHeight>>, <<MaxWidth, 1>>}

InitRLE ==
    /\ rlePc = "start"
    /\ rleResult = "none"
    /\ fBitsPerPixel \in {4, 8, 24}
    /\ fRLEBytes = MaxRLEBytes
    /\ \E shape \in RleShapes : rleWidth = shape[1] /\ rleHeight = shape[2]
    \* with fewer than two rows both row orders address the same rows
    /\ fRowOrder \in (IF rleHeight < 2 THEN {kBottomUp_RowOrder} ELSE RowOrders)
    /\ streamAvail \in StreamLengths
    /\ totalBytes = 0
    /\ currByte = 0
    /\ x = 0
    /\ y = 0
    /\ rleDst = [r \in 0..(rleHeight - 1) |-> [c \in 0..(rleWidth - 1) |-> Garbage]]
    /\ written = {}
    /\ oobWrite = FALSE
    /\ lastOp = NoOp
    /\ numOps = 0
    /\ HdrIdle
    /\ GpIdle
    /\ PngIdle

NextRLE ==
    \/ decodeRLE_Begin
    \/ decodeRLE_Incomplete
    \/ \E flag \in Bytes, task \in Bytes : decodeRLE_BeyondImage(flag, task)
    \/ \E flag \in Bytes, task \in Bytes : decodeRLE_EndOfLine(flag, task)
    \/ \E flag \in Bytes, task \in Bytes : decodeRLE_EndOfFile(flag, task)
    \/ \E flag \in Bytes, task \in Bytes : decodeRLE_Delta(flag, task)
    \/ \E flag \in Bytes, task \in Bytes : decodeRLE_Absolute(flag, task)
    \/ \E flag \in Bytes, task \in Bytes : decodeRLE_Run(flag, task)

SpecRLE == InitRLE /\ [][NextRLE]_vars

\* ------------------------------------------------------------------------
\* SkBmpCodec::NewFromStream / NewFromIco as operations
\* ------------------------------------------------------------------------
\* the 565 and 8888 mask sets, and a set whose red and green masks overlap
Masks565 == [red |-> 11..15, green |-> 5..10, blue |-> 0..4, alpha |-> NoMask]
Masks8888 == [red |-> 16..23, green |-> 8..15, blue |-> 0..7, alpha |-> 24..31]
MasksOverlap == [red |-> 0..7, green |-> 4..11, blue |-> 12..15, alpha |-> NoMask]

\* a header every check accepts: InfoV1, 1 x 2, 24 bits per pixel
BaseHeader ==
    [isIco |-> FALSE, streamLen |-> 1000, totalBytes |-> 1000, offset |-> 200,
     infoBytes |-> kBmpInfoV1Bytes, width |-> 1, height |-> 2,
     bitsPerPixel |-> 24, compression |-> kNone_BitmapCompressionMethod,
     numColors |-> 0, masks |-> NoMasks]

\* the values tried for the width and height fields: around zero, around
\* kBmpMaxDim, around twice kBmpMaxDim (the height field of an ICO image is
\* halved), and the most negative int
WidthFields == {-1, 0, 1, 65535, 65536}
HeightFields == {IntMin, -65536, -65535, -1, 0, 1, 2, 65535, 65536,
                 131070, 131071, 131072}

InfoSizes == {8, kBmpOS2V1Bytes, kBmpInfoBaseBytes, kBmpInfoV1Bytes, 41,
              kBmpInfoV2Bytes, kBmpInfoV3Bytes, kBmpOS2V2Bytes,
              kBmpInfoV4Bytes, kBmpInfoV5Bytes}

\* headers that differ in their dimensions (an OS2V1 header has 16-bit
\* fields: the factory sees the low 16 bits of the value)
DimHeaders ==
    {[BaseHeader EXCEPT !.isIco = ico, !.infoBytes = n, !.width = w, !.height = hh] :
        ico \in BOOLEAN, n \in {kBmpOS2V1Bytes, kBmpInfoV1Bytes},
        w \in WidthFields, hh \in HeightFields}

\* headers that differ in their pixel format
FormatHeaders ==
    {[BaseHeader EXCEPT !.isIco = ico, !.infoBytes = n, !.bitsPerPixel = bpp,
                        !.compression = cmp, !.masks = mk] :
        ico \in BOOLEAN, n \in InfoSizes, bpp \in {0, 1, 2, 4, 8, 16, 24, 32},
        cmp \in {kNone_BitmapCompressionMethod, k8BitRLE_BitmapCompressionMethod,
                 k4BitRLE_BitmapCompressionMethod, kBitMasks_BitmapCompressionMethod,
                 kJpeg_BitmapCompressionMethod, kPng_BitmapCompressionMethod,
                 kAlphaBitMasks_BitmapCompressionMethod,
                 kCMYK_BitmapCompressionMethod,
                 kCMYK8BitRLE_BitmapCompressionMethod,
                 kCMYK4BitRLE_BitmapCompressionMethod, 7},
        mk \in {NoMasks, Masks565, Masks8888, MasksOverlap}}

\* headers that differ in the file layout: stream length, file size, offset
LayoutHeaders ==
    {[BaseHeader EXCEPT !.isIco = ico, !.infoBytes = n, !.streamLen = len,
                        !.totalBytes = tb, !.offset = off, !.compression = cmp,
                        !.numColors = nc] :
        ico \in BOOLEAN, n \in {8, kBmpOS2V1Bytes, kBmpInfoV1Bytes, kBmpInfoV5Bytes},
        len \in {3, 20, 60, 1000}, tb \in {0, 200, 1000}, off \in {25, 26, 60, 200},
        cmp \in {kNone_BitmapCompressionMethod, k8BitRLE_BitmapCompressionMethod,
                 kBitMasks_BitmapCompressionMethod},
        nc \in {0, 2}}

Headers == DimHeaders \cup FormatHeaders \cup LayoutHeaders

\* lines 92-94
NewFromStream_Bmp ==
    /\ hdrPc = "start"
    /\ \E h \in Headers :
          /\ ~h.isIco
          /\ \E negated \in NegateOutcomes(h.height) :
                /\ header' = h
                /\ codec' = NewFromStream(h, negated)
    /\ hdrPc' = "done"
    /\ UNCHANGED <<rleVars, gpVars, pngVars>>

\* lines 102-104
NewFromIco ==
    /\ hdrPc = "start"
    /\ \E h \in Headers :
          /\ h.isIco
          /\ \E negated \in NegateOutcomes(h.height) :
                /\ header' = h
                /\ codec' = NewFromStream(h, negated)
    /\ hdrPc' = "done"
    /\ UNCHANGED <<rleVars, gpVars, pngVars>>

InitHeader ==
    /\ hdrPc = "start"
    /\ header = NULL
    /\ codec = NULL
    /\ RleIdle
    /\ GpIdle
    /\ PngIdle

NextHeader == NewFromStream_Bmp \/ NewFromIco

SpecHeader == InitHeader /\ [][NextHeader]_vars

\* ------------------------------------------------------------------------
\* getPixels: both decoders' onGetPixels, createColorTable and the row engines
\* ------------------------------------------------------------------------
MaxCalls == 2        \* getPixels calls made on one decoder

\* the source samples a pixel of the input is drawn from
Samples == {0, 1}

\* the blue, green, red and alpha bytes of a 24 or 32 bit sample, and the
\* components a bit-mask sample yields
SampleBGRA(s) ==
    IF s = 0 THEN [b |-> 1, g |-> 2, r |-> 3, a |-> 0]
             ELSE [b |-> 16, g |-> 32, r |-> 48, a |-> 128]

\* the bytes of colour table entry i in the stream: blue, green, red, fourth
PaletteBytes(i) ==
    IF i = 0 THEN <<0, 0, 255, 255>>
    ELSE IF i = 1 THEN <<255, 0, 0, 128>>
    ELSE <<0, 0, 0, 0>>

SkMulDiv255Round(a, b) ==
    LET prod == a * b + 128 IN (prod + (prod \div 256)) \div 256

SkPreMultiplyARGB(a, r, g, b) ==
    IF a # 255
        THEN SkPackARGB32NoCheck(a, SkMulDiv255Round(r, a),
                                 SkMulDiv255Round(g, a), SkMulDiv255Round(b, a))
        ELSE SkPackARGB32NoCheck(a, r, g, b)

\* the bits of a byte, and the byte of a set of bits
ByteBits(v) == {i \in 0..7 : (v \div (2 ^ i)) % 2 = 1}

RECURSIVE BitsValue(_)
BitsValue(S) ==
    IF S = {} THEN 0
    ELSE LET i == CHOOSE j \in S : TRUE IN (2 ^ i) + BitsValue(S \ {i})

\* (mask >> 24) & v for a mask given as its set of bit positions
AlphaOfByte(mask, v) ==
    BitsValue({i \in ByteBits(v) : (i + 24) \in mask})

\* mutant of conversion_possible_bmp: any alpha type may be asked for
conversion_possible_bmp_AnyAlpha(dst, src) ==
    IF dst.profileType # src.profileType THEN FALSE
    ELSE dst.colorType = kN32_SkColorType

\* SkCodec_libbmp.cpp lines 19-35
conversion_possible_bmp(dst, src) ==
    IF dst.profileType # src.profileType THEN FALSE
    ELSE IF dst.colorType = kN32_SkColorType
        THEN \/ src.alphaType = dst.alphaType
             \/ (dst.alphaType = kPremul_SkAlphaType
                    /\ src.alphaType = kUnpremul_SkAlphaType)
        ELSE FALSE

conversion_possible_png_Loose(dst, src) ==
    IF dst.colorType # src.colorType THEN FALSE
    ELSE IF dst.profileType # src.profileType THEN FALSE
    ELSE IF dst.alphaType = src.alphaType THEN TRUE
    ELSE dst.alphaType = kPremul_SkAlphaType

\* SkCodec_libpng.cpp lines 351-364
conversion_possible_png(dst, src) ==
    IF dst.colorType # src.colorType THEN FALSE
    ELSE IF dst.profileType # src.profileType THEN FALSE
    ELSE IF dst.alphaType = src.alphaType THEN TRUE
    ELSE dst.alphaType = kPremul_SkAlphaType
            /\ src.alphaType = kUnpremul_SkAlphaType

\* SkCodec::rewindIfNeeded: the first call needs no rewind, a later call
\* succeeds when the stream can rewind
rewindIfNeeded(needsRewind, canRewind) == ~needsRewind \/ canRewind

SameDimensions(d, src) == d.width = src.width /\ d.height = src.height

Proceed == "proceed"

onGetPixels_Checks_ScaleFirst(rewound, d) ==
    IF ~SameDimensions(d, codec) THEN kInvalidScale
    ELSE IF ~rewound THEN kCouldNotRewind
    ELSE IF ~conversion_possible_bmp(d, codec) THEN kInvalidConversion
    ELSE Proceed

\* SkBmpCodec::onGetPixels lines 522-532
onGetPixels_Checks(rewound, d) ==
    IF ~rewound THEN kCouldNotRewind
    ELSE IF ~SameDimensions(d, codec) THEN kInvalidScale
    ELSE IF ~conversion_possible_bmp(d, codec) THEN kInvalidConversion
    ELSE Proceed

\* SkPngCodec::onGetPixels lines 420-428
onGetPixels_PngChecks(rewound, d) ==
    IF ~rewound THEN kCouldNotRewind
    ELSE IF ~SameDimensions(d, codec) THEN kInvalidScale
    ELSE IF ~conversion_possible_png(d, codec) THEN kInvalidConversion
    ELSE Proceed

\* a destination buffer as the caller hands it over
GarbageDst(d) ==
    [r \in 0..(d.height - 1) |-> [c \in 0..(d.width - 1) |-> Garbage]]

\* the stream position the factory leaves behind
StreamPosAfterParse(h) ==
    LET n == h.infoBytes
        base == n >= kBmpInfoBaseBytes
        compression == IF base /\ n - 4 >= 16 THEN h.compression
                                              ELSE kNone_BitmapCompressionMethod
        disp == CompressionDispatch(h, HeaderTypeOf(n), compression, h.bitsPerPixel)
    IN FirstHeaderBytes(h.isIco) + (n - 4) + disp.maskBytes

\* stream()->read(buf, n) and skip(n) at position pos: the bytes delivered
StreamRead(pos, n) == Min(n, header.streamLen - pos)

\* createColorTable, lines 559-643: [ok, pos, numColors, read]
createColorTable(pos) ==
    LET indexed == codec.fBitsPerPixel <= 8
        maxColors == IF indexed THEN 2 ^ codec.fBitsPerPixel ELSE 0
        numColors == IF indexed /\ (codec.fNumColors = 0
                                       \/ codec.fNumColors >= maxColors)
                        THEN maxColors ELSE codec.fNumColors
        colorBytes == IF indexed THEN numColors * codec.fBytesPerColor ELSE 0
        got == StreamRead(pos, colorBytes)
        pos1 == pos + got
        toSkip == codec.fOffset - colorBytes
        skipped == StreamRead(pos1, toSkip)
    IN  IF got # colorBytes
            THEN [ok |-> FALSE, pos |-> pos1, numColors |-> numColors,
                  read |-> got]
        ELSE IF codec.fIsIco
            THEN [ok |-> TRUE, pos |-> pos1, numColors |-> numColors,
                  read |-> got]
        ELSE IF codec.fOffset < colorBytes
            THEN [ok |-> FALSE, pos |-> pos1, numColors |-> numColors,
                  read |-> got]
        ELSE IF skipped # toSkip
            THEN [ok |-> FALSE, pos |-> pos1 + skipped, numColors |-> numColors,
                  read |-> got]
        ELSE [ok |-> TRUE, pos |-> pos1 + skipped, numColors |-> numColors,
                  read |-> got]

\* get_byte(cBuffer.get(), k): byte k of the colour table as the stream
\* holds it, entries of fBytesPerColor bytes one after the other
TableByte(k) ==
    PaletteBytes(k \div codec.fBytesPerColor)[(k % codec.fBytesPerColor) + 1]

\* lines 603-605: the fourth byte of an entry is read unless the
\* destination is Opaque
ReadsFourthByte(alphaType) == alphaType # kOpaque_SkAlphaType

\* lines 599-616: entry i of the table createColorTable builds
ColorTableEntry(i, alphaType, numColors) ==
    LET at == i * codec.fBytesPerColor
        blue == TableByte(at)
        green == TableByte(at + 1)
        red == TableByte(at + 2)
        alpha == IF ReadsFourthByte(alphaType)
                    THEN AlphaOfByte(codec.fMasks.alpha, TableByte(at + 3))
                    ELSE 255
    IN  IF i < numColors
            THEN IF alphaType = kPremul_SkAlphaType
                    THEN SkPreMultiplyARGB(alpha, red, green, blue)
                    ELSE SkPackARGB32NoCheck(alpha, red, green, blue)
            ELSE SkPackARGB32NoCheck(255, 0, 0, 0)

\* lines 597-616 and 641: the table of maxColors entries fColorTable is set to
BuiltColorTable(alphaType, numColors) ==
    LET maxColors == IF codec.fBitsPerPixel <= 8 THEN 2 ^ codec.fBitsPerPixel
                                                 ELSE 0
    IN [i \in 0..(maxColors - 1) |-> ColorTableEntry(i, alphaType, numColors)]

\* decode, lines 990-1016: the swizzler configuration
SwizzlerConfig(bitsPerPixel, dstAlphaType) ==
    CASE bitsPerPixel = 1 -> "kIndex1"
      [] bitsPerPixel = 2 -> "kIndex2"
      [] bitsPerPixel = 4 -> "kIndex4"
      [] bitsPerPixel = 8 -> "kIndex"
      [] bitsPerPixel = 24 -> "kBGR"
      [] bitsPerPixel = 32 ->
            IF dstAlphaType = kOpaque_SkAlphaType THEN "kBGRX" ELSE "kBGRA"
      [] OTHER -> "none"

\* SkSwizzler::next for one pixel
SwizzlePixel(config, s, d, numColors) ==
    LET p == SampleBGRA(s)
    IN CASE config \in {"kIndex1", "kIndex2", "kIndex4", "kIndex"} ->
                ColorTableEntry(s, d.alphaType, numColors)
         [] config \in {"kBGR", "kBGRX"} -> SkPackARGB32NoCheck(255, p.r, p.g, p.b)
         [] OTHER ->
                IF d.alphaType = kPremul_SkAlphaType
                    THEN SkPreMultiplyARGB(p.a, p.r, p.g, p.b)
                    ELSE SkPackARGB32NoCheck(p.a, p.r, p.g, p.b)

\* SkMaskSwizzler::next for one pixel
MaskPixel(s, d) ==
    LET p == SampleBGRA(s)
    IN  IF codec.fMasks.alpha = NoMask \/ d.alphaType = kOpaque_SkAlphaType
            THEN SkPackARGB32NoCheck(255, p.r, p.g, p.b)
        ELSE IF d.alphaType = kPremul_SkAlphaType
            THEN SkPreMultiplyARGB(p.a, p.r, p.g, p.b)
        ELSE SkPackARGB32NoCheck(p.a, p.r, p.g, p.b)

\* the rows of rowBytes bytes a loop over height rows reads completely
RowsRead(pos, rowBytes, height) ==
    IF rowBytes = 0 THEN height
                    ELSE Min(height, (header.streamLen - pos) \div rowBytes)

\* lines 1097-1105: dstRow[x] &= alphaBit - 1
ApplyAndBit(pixel, alphaBit) == IF alphaBit = 1 THEN ZeroPixel ELSE pixel

SetMax(S) == CHOOSE v \in S : \A w \in S : w <= v

\* what an engine did, for the properties: the samples of the input rows it
\* read, the <<input row, destination row>> pairs of the swizzler calls of
\* the first pass, of the AND-mask pass and of the opaque second pass, the
\* destination as the first pass left it, whether a read came back short,
\* and the stream position the engine started at
NoLog == [engine |-> "none", data |-> <<>>, rows |-> <<>>, andRows |-> <<>>,
          opaqueRows |-> <<>>, first |-> <<>>, short |-> FALSE, start |-> -1]

ColorRow_Same(yy, height) == yy

\* lines 1036-1041: the destination row of input row yy
ColorRow(yy, height) ==
    IF codec.fRowOrder = kTopDown_RowOrder THEN yy ELSE height - 1 - yy

\* lines 1087-1092
AndRow(yy, height) ==
    IF codec.fRowOrder = kBottomUp_RowOrder THEN height - yy - 1 ELSE yy

\* line 677 and 696
MaskRow(yy, height) ==
    IF codec.fRowOrder = kBottomUp_RowOrder THEN height - 1 - yy ELSE yy

ColourReadShort_Ignored(n, height) == FALSE

\* lines 1030-1033: a read of a colour row came back short, having read n
\* rows completely
ColourReadShort(n, height) == n < height

\* decode, lines 981-1111: [result, dst, colorPass, pos, log].  A row of the
\* destination holds what the last swizzler call on it wrote.
decode(d, pos, numColors, data, andData) ==
    LET width == d.width
        height == d.height
        rowBytes == SkAlign4(compute_row_bytes(width, codec.fBitsPerPixel))
        config == SwizzlerConfig(codec.fBitsPerPixel, d.alphaType)
        n == RowsRead(pos, rowBytes, height)
        colour == [r \in 0..(height - 1) |-> [c \in 0..(width - 1) |->
                    LET ws == {v \in 0..(n - 1) : ColorRow(v, height) = r}
                    IN IF ws = {} THEN Garbage
                       ELSE SwizzlePixel(config, data[SetMax(ws)][c], d, numColors)]]
        pos1 == pos + n * rowBytes
        andRowBytes == SkAlign4(compute_row_bytes(width, 1))
        m == RowsRead(pos1, andRowBytes, height)
        masked == [r \in 0..(height - 1) |-> [c \in 0..(width - 1) |->
                    IF \E v \in 0..(m - 1) :
                          AndRow(v, height) = r /\ andData[v][c] = 1
                       THEN ApplyAndBit(colour[r][c], 1)
                       ELSE ApplyAndBit(colour[r][c], 0)]]
        log == [NoLog EXCEPT
                  !.engine = "standard", !.start = pos,
                  !.data = [k \in 1..n |-> data[k - 1]],
                  !.rows = [k \in 1..n |-> <<k - 1, ColorRow(k - 1, height)>>],
                  !.first = colour]
        andLog == [log EXCEPT
                  !.andRows = [k \in 1..m |-> <<k - 1, AndRow(k - 1, height)>>]]
    IN  IF config = "none"
            THEN [result |-> kInvalidInput, dst |-> GarbageDst(d),
                  colorPass |-> GarbageDst(d), pos |-> pos, log |-> NoLog]
        ELSE IF ColourReadShort(n, height)
            THEN [result |-> kIncompleteInput, dst |-> colour,
                  colorPass |-> colour, pos |-> header.streamLen,
                  log |-> [log EXCEPT !.short = TRUE]]
        ELSE IF ~codec.fIsIco
            THEN [result |-> kSuccess, dst |-> colour,
                  colorPass |-> colour, pos |-> pos1, log |-> log]
        ELSE IF m < height
            THEN [result |-> kIncompleteInput, dst |-> masked,
                  colorPass |-> colour, pos |-> header.streamLen,
                  log |-> [andLog EXCEPT !.short = TRUE]]
        ELSE [result |-> kSuccess, dst |-> masked,
              colorPass |-> colour, pos |-> pos1 + m * andRowBytes,
              log |-> andLog]

RowTransparent_Never(row) == FALSE

\* SkSwizzler::IsTransparent of the result of one row of the first pass
RowTransparent(row) == \A c \in DOMAIN row : row[c][1] = 0

\* decodeMask, lines 650-706: [result, dst, colorPass, pos, log]
decodeMask(d, pos, data) ==
    LET width == d.width
        height == d.height
        rowBytes == SkAlign4(compute_row_bytes(width, codec.fBitsPerPixel))
        n == RowsRead(pos, rowBytes, height)
        opaqueInfo == [d EXCEPT !.alphaType = kOpaque_SkAlphaType]
        pass(info) == [r \in 0..(height - 1) |-> [c \in 0..(width - 1) |->
                        LET ws == {v \in 0..(n - 1) : MaskRow(v, height) = r}
                        IN IF ws = {} THEN Garbage
                           ELSE MaskPixel(data[SetMax(ws)][c], info)]]
        first == pass(d)
        transparent ==
            \A v \in 0..(n - 1) :
                RowTransparent([c \in 0..(width - 1) |-> MaskPixel(data[v][c], d)])
        final == IF transparent THEN pass(opaqueInfo) ELSE first
        log == [NoLog EXCEPT
                  !.engine = "mask", !.start = pos,
                  !.data = [k \in 1..n |-> data[k - 1]],
                  !.rows = [k \in 1..n |-> <<k - 1, MaskRow(k - 1, height)>>],
                  !.first = first]
    IN  IF n < height
            THEN [result |-> kIncompleteInput, dst |-> first,
                  colorPass |-> first, pos |-> header.streamLen,
                  log |-> [log EXCEPT !.short = TRUE]]
            ELSE [result |-> kSuccess, dst |-> final,
                  colorPass |-> final, pos |-> pos + n * rowBytes,
                  log |-> IF transparent
                             THEN [log EXCEPT !.opaqueRows = log.rows]
                             ELSE log]

\* ------------------------------------------------------------------------
\* SkPngCodec::NewFromStream, lines 265-329: the default image information
\* ------------------------------------------------------------------------
PngColorTypes == {"PALETTE", "GRAY", "RGB", "RGB_ALPHA", "GRAY_ALPHA"}

\* has_transparency_in_palette, lines 99-108; trans is the tRNS chunk, empty
\* when the image has none
has_transparency_in_palette(trans) == Len(trans) > 0

PngNewFromStream(colorType, numPalette, trans, interlaced) ==
    [kind |-> "png", width |-> 1, height |-> 2,
     colorType |-> kN32_SkColorType,
     alphaType |->
        CASE colorType = "PALETTE" ->
                IF has_transparency_in_palette(trans)
                    THEN kUnpremul_SkAlphaType
                    ELSE kOpaque_SkAlphaType
          [] colorType = "GRAY" -> kOpaque_SkAlphaType
          [] OTHER ->
                IF has_transparency_in_palette(trans)
                       \/ colorType = "RGB_ALPHA"
                       \/ colorType = "GRAY_ALPHA"
                    THEN kUnpremul_SkAlphaType
                    ELSE kOpaque_SkAlphaType,
     profileType |-> kLinear_SkColorProfileType,
     pngColorType |-> colorType, interlaced |-> interlaced,
     numPalette |-> numPalette, trans |-> trans]

\* what libpng and SkSwizzler::CreateSwizzler do in one getPixels call: all
\* goes well, png_get_IHDR fails (long jump), the image has no PLTE chunk,
\* no swizzler can be created, png_read_update_info fails, png_read_rows
\* finds an error in the data, or the stream ends while png_read_rows reads
PngEvents == {"ok", "jump-init", "no-plte", "no-swizzler", "jump-update",
              "jump-rows", "short-rows"}

\* sk_read_fn, lines 53-63: the stream delivered bytes of the length bytes
\* libpng asked for; png_error ends in the long jump of sk_error_fn
sk_read_fn(bytes, length) == IF bytes # length THEN "longjmp" ELSE "read"

\* the red, green, blue of entry i of the PLTE chunk
PngPaletteColor(i) ==
    [r |-> (17 * i + 5) % 256, g |-> i % 256, b |-> 255 - (i % 256)]

\* the four bytes of a row sample libpng delivers for an image that is not
\* paletted: the filler of line 319 makes the fourth byte 255 unless the
\* colour type has alpha
PngRGBA(s, colorType) ==
    LET alpha == colorType \in {"RGB_ALPHA", "GRAY_ALPHA"}
    IN IF s = 0 THEN [r |-> 1, g |-> 2, b |-> 3, a |-> 255]
                ELSE [r |-> 48, g |-> 32, b |-> 16,
                      a |-> IF alpha THEN 128 ELSE 255]

\* the slots of colorStorage
ColorStorageSlots == 0..255

\* decodePalette, lines 118-181: [ok, entries, fReallyHasAlpha, slotsRead,
\* slotsWritten].  hasPLTE is the result of png_get_PLTE; stale is what the
\* read of colorPtr[-1] yields when it falls before colorStorage
decodePalette(premultiply, hasPLTE, stale) ==
    LET numPalette == codec.numPalette
        colorCount == numPalette + (IF numPalette < 256 THEN 1 ELSE 0)
        numTrans == Min(Len(codec.trans), numPalette)
        proc(a, c) == IF premultiply THEN SkPreMultiplyARGB(a, c.r, c.g, c.b)
                                     ELSE SkPackARGB32NoCheck(a, c.r, c.g, c.b)
        filled(i) == IF i < numTrans
                         THEN proc(codec.trans[i + 1], PngPaletteColor(i))
                         ELSE SkPackARGB32NoCheck(255, PngPaletteColor(i).r,
                                                  PngPaletteColor(i).g,
                                                  PngPaletteColor(i).b)
    IN  IF ~hasPLTE
            THEN [ok |-> FALSE, entries |-> <<>>, fReallyHasAlpha |-> FALSE,
                  slotsRead |-> {}, slotsWritten |-> {}]
            ELSE [ok |-> TRUE,
                  entries |-> [i \in 0..(colorCount - 1) |->
                                 IF i < numPalette THEN filled(i)
                                 ELSE IF numPalette >= 1
                                     THEN filled(numPalette - 1)
                                 ELSE stale],
                  fReallyHasAlpha |->
                      \E i \in 1..numTrans : codec.trans[i] < 255,
                  slotsRead |-> IF numPalette < 256 THEN {numPalette - 1}
                                                    ELSE {},
                  slotsWritten |-> 0..(colorCount - 1)]

ResolveSrcConfig_DstOpaqueIsRGBA(d) ==
    IF codec.pngColorType = "PALETTE" THEN "kIndex"
    ELSE IF d.colorType = kAlpha_8_SkColorType THEN "kGray"
    ELSE IF codec.alphaType = kOpaque_SkAlphaType THEN "kRGBA"
    ELSE "kRGBX"

\* initializeSwizzler, lines 387-401: fSrcConfig from the colour type of the
\* image, the colour type asked for and the decoder's own alpha type
ResolveSrcConfig(d) ==
    IF codec.pngColorType = "PALETTE" THEN "kIndex"
    ELSE IF d.colorType = kAlpha_8_SkColorType THEN "kGray"
    ELSE IF codec.alphaType = kOpaque_SkAlphaType THEN "kRGBX"
    ELSE "kRGBA"

\* initializeSwizzler, lines 366-415: [result, table, swizzler, config, pal,
\* hasAlpha]; hasAlpha is fReallyHasAlpha when it returns
initializeSwizzler(d, event, stale) ==
    LET palette == codec.pngColorType = "PALETTE"
        pal == decodePalette(d.alphaType = kPremul_SkAlphaType,
                             event # "no-plte", stale)
        config == ResolveSrcConfig(d)
        hasAlpha == palette /\ pal.fReallyHasAlpha
        none == [ok |-> FALSE, entries |-> <<>>, fReallyHasAlpha |-> FALSE,
                 slotsRead |-> {}, slotsWritten |-> {}]
        built == IF palette THEN pal ELSE none
    IN  IF event = "jump-init"
            THEN [result |-> kInvalidInput, table |-> FALSE, swizzler |-> FALSE,
                  config |-> fSrcConfig, pal |-> none,
                  hasAlpha |-> fReallyHasAlpha]
        ELSE IF palette /\ ~pal.ok
            THEN [result |-> kInvalidInput, table |-> FALSE, swizzler |-> FALSE,
                  config |-> config, pal |-> none, hasAlpha |-> FALSE]
        ELSE IF event = "no-swizzler"
            THEN [result |-> kUnimplemented, table |-> palette,
                  swizzler |-> FALSE, config |-> config, pal |-> built,
                  hasAlpha |-> hasAlpha]
        ELSE IF event = "jump-update"
            THEN [result |-> kInvalidInput, table |-> palette,
                  swizzler |-> TRUE, config |-> config, pal |-> built,
                  hasAlpha |-> hasAlpha]
        ELSE [result |-> kSuccess, table |-> palette, swizzler |-> TRUE,
              config |-> config, pal |-> built, hasAlpha |-> hasAlpha]

\* SkSwizzler::next for one pixel of a PNG row
PngSwizzle(config, s, entries, d) ==
    LET p == PngRGBA(s, codec.pngColorType)
    IN  IF config = "kIndex" THEN entries[s]
        ELSE IF config = "kRGBA" /\ d.alphaType = kPremul_SkAlphaType
            THEN SkPreMultiplyARGB(p.a, p.r, p.g, p.b)
        ELSE IF config = "kRGBA"
            THEN SkPackARGB32NoCheck(p.a, p.r, p.g, p.b)
        ELSE SkPackARGB32NoCheck(255, p.r, p.g, p.b)

\* SkSwizzler::IsOpaque of the result of one row
RowOpaque(row) == \A c \in DOMAIN row : row[c][1] = 255

\* lines 443-483: the rows of the image; rowsRead rows were read when
\* png_read_rows failed.  [result, dst, log, hasAlpha]: hasAlpha is what the
\* row loop ors into fReallyHasAlpha
PngRows(d, event, rowsRead, data, config, entries) ==
    LET reads == IF event = "short-rows" THEN sk_read_fn(0, 1)
                                         ELSE sk_read_fn(1, 1)
        failed == event = "jump-rows" \/ reads = "longjmp"
        shown == IF ~failed THEN d.height
                 ELSE IF codec.interlaced THEN 0 ELSE rowsRead
        row(r) == [c \in 0..(d.width - 1) |->
                      PngSwizzle(config, data[r][c], entries, d)]
    IN [result |-> IF failed THEN kInvalidInput ELSE kSuccess,
        dst |-> [r \in 0..(d.height - 1) |->
                    IF r < shown THEN row(r)
                                 ELSE [c \in 0..(d.width - 1) |-> Garbage]],
        log |-> [NoLog EXCEPT !.engine = "png",
                              !.data = [k \in 1..shown |-> data[k - 1]],
                              !.short = (event = "short-rows")],
        hasAlpha |-> \E r \in 0..(shown - 1) : ~RowOpaque(row(r))]

\* ------------------------------------------------------------------------
\* the getPixels calls
\* ------------------------------------------------------------------------
DstInfos ==
    [width : {1}, height : {1, 2},
     colorType : {kN32_SkColorType, kRGB_565_SkColorType},
     alphaType : AlphaTypes, profileType : ProfileTypes]

\* the destinations tried on a PNG: those above and two of colour type Alpha8
PngDstInfos ==
    DstInfos \cup
    [width : {1}, height : {2}, colorType : {kAlpha_8_SkColorType},
     alphaType : {kOpaque_SkAlphaType, kPremul_SkAlphaType},
     profileType : {kLinear_SkColorProfileType}]

SampleRows(d) == [0..(d.height - 1) -> [0..(d.width - 1) -> Samples]]
BitRows(d) == [0..(d.height - 1) -> [0..(d.width - 1) -> {0, 1}]]

CanCall ==
    /\ numCalls < MaxCalls
    /\ \/ gpPc \in {"ready", "returned"}
       \/ gpPc = "rle" /\ rlePc = "done"

\* the part of a call every path shares: the caller's arguments are recorded
\* and rewindIfNeeded has run
GpEnter(d) ==
    /\ gpCall' = [kind |-> "getPixels", dstInfo |-> d,
                  neededRewind |-> fNeedsRewind, pos |-> streamPos]
    /\ fNeedsRewind' = TRUE
    /\ numCalls' = numCalls + 1
    /\ UNCHANGED <<hdrPc, header, rewindable, pngVars>>

GpReturnLog(res, dst, pass, bits, pos, table, swizzler, log) ==
    /\ engineLog' = log
    /\ gpPc' = "returned"
    /\ gpResult' = res
    /\ gpDst' = dst
    /\ colorPass' = pass
    /\ andBits' = bits
    /\ streamPos' = pos
    /\ tableBuilt' = table
    /\ swizzlerBuilt' = swizzler
    /\ UNCHANGED rleVars

GpReturn(res, dst, pass, bits, pos, table, swizzler) ==
    GpReturnLog(res, dst, pass, bits, pos, table, swizzler, NoLog)

\* decodeRLE is entered: its steps are the decodeRLE actions
GpEnterRLE(d, pos) ==
    /\ gpPc' = "rle"
    /\ gpResult' = "pending"
    /\ gpDst' = GarbageDst(d)
    /\ colorPass' = GarbageDst(d)
    /\ engineLog' = [NoLog EXCEPT !.engine = "rle", !.start = pos]
    /\ andBits' = NoBits
    /\ streamPos' = pos
    /\ tableBuilt' = TRUE
    /\ swizzlerBuilt' = FALSE
    /\ rlePc' = "start"
    /\ rleResult' = "none"
    /\ fBitsPerPixel' = codec.fBitsPerPixel
    /\ fRowOrder' = codec.fRowOrder
    /\ fRLEBytes' = codec.fRLEBytes
    /\ rleWidth' = d.width
    /\ rleHeight' = d.height
    /\ streamAvail' = header.streamLen - pos
    /\ totalBytes' = 0
    /\ currByte' = 0
    /\ x' = 0
    /\ y' = 0
    /\ rleDst' = GarbageDst(d)
    /\ written' = {}
    /\ oobWrite' = FALSE
    /\ lastOp' = NoOp
    /\ numOps' = 0

\* rows the stream does not hold are never looked at: they are drawn as zero
RowsHeld(rows, n) ==
    \A r \in DOMAIN rows : r >= n => \A c \in DOMAIN rows[r] : rows[r][c] = 0

\* the colour rows a call at pos can read
ColourRowsIn(d, pos) ==
    LET rowBytes == SkAlign4(compute_row_bytes(d.width, codec.fBitsPerPixel))
        n == RowsRead(pos, rowBytes, d.height)
    IN {rows \in SampleRows(d) : RowsHeld(rows, n)}

\* the rows of the AND mask a call at pos can read: those of an ICO image
\* whose colour rows were all read
AndRowsIn(d, pos) ==
    LET rowBytes == SkAlign4(compute_row_bytes(d.width, codec.fBitsPerPixel))
        n == RowsRead(pos, rowBytes, d.height)
        andRowBytes == SkAlign4(compute_row_bytes(d.width, 1))
        m == IF codec.fIsIco /\ n = d.height
                THEN RowsRead(pos + n * rowBytes, andRowBytes, d.height)
                ELSE 0
    IN {rows \in BitRows(d) : RowsHeld(rows, m)}

\* SkBmpCodec::onGetPixels, lines 517-552
onGetPixels_Bmp ==
    /\ CanCall
    /\ codec.kind = "bmp"
    /\ \E d \in DstInfos :
        LET rewound == rewindIfNeeded(fNeedsRewind, rewindable)
            pos0 == IF fNeedsRewind /\ rewindable THEN 0 ELSE streamPos
            check == onGetPixels_Checks(rewound, d)
            ct == createColorTable(pos0)
        IN  /\ GpEnter(d)
            /\ UNCHANGED <<fReallyHasAlpha, fSrcConfig>>
            /\ colorTable' =
                  IF check # Proceed THEN NoTable
                  ELSE [entries |-> IF ct.ok
                                       THEN BuiltColorTable(d.alphaType, ct.numColors)
                                       ELSE <<>>,
                        read |-> ct.read]
            /\ IF check # Proceed
                  THEN /\ GpReturn(check, GarbageDst(d), GarbageDst(d), NoBits,
                                   pos0, FALSE, FALSE)
                       /\ UNCHANGED <<codec, fColorTableSet>>
               ELSE IF ~ct.ok
                  THEN /\ GpReturn(kInvalidInput, GarbageDst(d), GarbageDst(d),
                                   NoBits, ct.pos, FALSE, FALSE)
                       /\ codec' = [codec EXCEPT !.fNumColors = ct.numColors]
                       /\ UNCHANGED fColorTableSet
               ELSE /\ codec' = [codec EXCEPT !.fNumColors = ct.numColors]
                    /\ fColorTableSet' = TRUE
                    /\ IF codec.fInputFormat = kBitMask_BitmapInputFormat
                          THEN \E data \in ColourRowsIn(d, ct.pos),
                                  andData \in AndRowsIn(d, ct.pos) :
                                 \E e \in {decodeMask(d, ct.pos, data)} :
                                    GpReturnLog(e.result, e.dst, e.colorPass,
                                             IF codec.fIsIco THEN andData ELSE NoBits,
                                             e.pos, TRUE, TRUE, e.log)
                       ELSE IF codec.fInputFormat = kRLE_BitmapInputFormat
                          THEN GpEnterRLE(d, ct.pos)
                       ELSE IF codec.fInputFormat = kStandard_BitmapInputFormat
                          THEN \E data \in ColourRowsIn(d, ct.pos),
                                  andData \in AndRowsIn(d, ct.pos) :
                                 \E e \in {decode(d, ct.pos, ct.numColors, data, andData)} :
                                    GpReturnLog(e.result, e.dst, e.colorPass,
                                             IF codec.fIsIco THEN andData ELSE NoBits,
                                             e.pos, TRUE, TRUE, e.log)
                       ELSE GpReturn(kInvalidInput, GarbageDst(d), GarbageDst(d),
                                     NoBits, ct.pos, TRUE, FALSE)

\* the values tried for a read that falls before colorStorage
StaleSlots ==
    IF codec.pngColorType = "PALETTE" /\ codec.numPalette = 0
        THEN {Garbage, ZeroPixel} ELSE {Garbage}

\* the rows png_read_rows may have delivered when it fails
RowsBeforeFailure(d, event) ==
    IF event \in {"jump-rows", "short-rows"} THEN 0..(d.height - 1) ELSE {0}

\* the samples of the rows of a PNG: palette indices below the size of the
\* colour table, or colour samples
PngSampleRows(d) ==
    LET usable == IF codec.pngColorType = "PALETTE" /\ codec.numPalette = 0
                     THEN {0} ELSE Samples
    IN [0..(d.height - 1) -> [0..(d.width - 1) -> usable]]

\* the rows drawn for an event: only the row loop looks at them
PngDataFor(d, event) ==
    IF event \in {"ok", "jump-rows", "short-rows"}
        THEN PngSampleRows(d)
        ELSE {[r \in 0..(d.height - 1) |-> [c \in 0..(d.width - 1) |-> 0]]}

\* SkPngCodec::onGetPixels, lines 417-484
onGetPixels_Png ==
    /\ CanCall
    /\ codec.kind = "png"
    /\ \E d \in PngDstInfos :
        LET rewound == rewindIfNeeded(fNeedsRewind, rewindable)
            pos0 == IF fNeedsRewind /\ rewindable THEN 0 ELSE streamPos
            check == onGetPixels_PngChecks(rewound, d)
        IN  /\ GpEnter(d)
            /\ UNCHANGED codec
            /\ IF check # Proceed
                  THEN /\ GpReturn(check, GarbageDst(d), GarbageDst(d), NoBits,
                                   pos0, FALSE, FALSE)
                       /\ colorTable' = NoTable
                       /\ UNCHANGED <<fColorTableSet, fReallyHasAlpha, fSrcConfig>>
                  ELSE \E event \in PngEvents, stale \in StaleSlots :
                       \E s \in {initializeSwizzler(d, event, stale)} :
                          /\ fColorTableSet' = (fColorTableSet \/ s.table)
                          /\ fSrcConfig' = s.config
                          /\ colorTable' =
                                IF s.pal.ok
                                    THEN [entries |-> s.pal.entries,
                                          read |-> 0,
                                          slotsRead |-> s.pal.slotsRead,
                                          slotsWritten |-> s.pal.slotsWritten]
                                    ELSE NoTable
                          /\ IF s.result # kSuccess
                                THEN /\ fReallyHasAlpha' = s.hasAlpha
                                     /\ GpReturn(s.result, GarbageDst(d),
                                                 GarbageDst(d), NoBits, pos0,
                                                 s.table, s.swizzler)
                                ELSE \E rowsRead \in RowsBeforeFailure(d, event),
                                        data \in PngDataFor(d, event) :
                                     \E e \in {PngRows(d, event, rowsRead, data,
                                                       s.config, s.pal.entries)} :
                                        /\ fReallyHasAlpha' =
                                              (s.hasAlpha \/ e.hasAlpha)
                                        /\ GpReturnLog(e.result, e.dst, e.dst,
                                                       NoBits, pos0, s.table,
                                                       s.swizzler, e.log)

\* ------------------------------------------------------------------------
\* the decoders getPixels is called on
\* ------------------------------------------------------------------------
\* Images of one column and two rows.  A plain 24-bit BMP; ICO-embedded BMPs of every row engine,
\* in both row orders (the height field of an ICO image counts the rows of
\* the colour data and of the AND mask); a plain BMP with bit masks and
\* alpha; an RLE8 BMP with a two-colour table.  Each with a stream that
\* holds the whole image and with one that ends early.
PlainHeaders ==
    {[BaseHeader EXCEPT !.offset = 54, !.height = hh, !.streamLen = len] :
        hh \in {2, -2}, len \in {58, 1000}}

IcoHeaders ==
    {[BaseHeader EXCEPT !.isIco = TRUE, !.bitsPerPixel = bpp, !.height = hh,
                        !.numColors = 2, !.streamLen = len] :
        bpp \in {1, 8, 16, 24, 32}, hh \in {4, -4}, len \in {52, 60, 1000}}

MaskHeaders ==
    {[BaseHeader EXCEPT !.infoBytes = kBmpInfoV4Bytes, !.offset = 122,
                        !.bitsPerPixel = 32,
                        !.compression = kBitMasks_BitmapCompressionMethod,
                        !.masks = Masks8888, !.streamLen = len] :
        len \in {126, 1000}}

RleHeaders ==
    {[BaseHeader EXCEPT !.offset = 62, !.bitsPerPixel = 8, !.numColors = 2,
                        !.compression = k8BitRLE_BitmapCompressionMethod,
                        !.totalBytes = 62 + MaxRLEBytes, !.streamLen = len] :
        len \in {65, 62 + MaxRLEBytes}}

\* an 8-bit BMP whose two-colour table ends at the pixel data, and one whose
\* pixel data offset lies inside the table; 4-bit BMPs with a colour count of
\* 0, below, at and above 16, the pixel data after a full table; a 4-bit BMP
\* with an InfoV4 header and an alpha mask
MaskAlpha4 == [NoMasks EXCEPT !.alpha = 0..3]

TableHeaders ==
    {[BaseHeader EXCEPT !.offset = off, !.bitsPerPixel = 8, !.numColors = 2] :
        off \in {58, 62}}
    \cup {[BaseHeader EXCEPT !.offset = 118, !.bitsPerPixel = 4, !.numColors = nc] :
        nc \in {0, 2, 16, 300}}
    \cup {[BaseHeader EXCEPT !.infoBytes = kBmpInfoV4Bytes, !.offset = 130,
                             !.bitsPerPixel = 4, !.numColors = 2,
                             !.masks = MaskAlpha4]}

\* images with the 12-byte OS2V1 header, whose colour table has entries of
\* three bytes: a 1-bit BMP with its two-colour table before the pixel
\* data, and a 1-bit and a 32-bit image inside an ICO
Os2Headers ==
    {[BaseHeader EXCEPT !.infoBytes = kBmpOS2V1Bytes, !.offset = 32,
                        !.bitsPerPixel = 1]}
    \cup {[BaseHeader EXCEPT !.isIco = TRUE, !.infoBytes = kBmpOS2V1Bytes,
                             !.bitsPerPixel = bpp, !.height = 4] :
        bpp \in {1, 32}}

FacadeHeaders ==
    PlainHeaders \cup IcoHeaders \cup MaskHeaders \cup RleHeaders
        \cup TableHeaders \cup Os2Headers

\* PNG images: paletted ones with palettes of 0, 1 and 2 entries and a tRNS
\* chunk that is absent, all opaque, transparent, or longer than the
\* palette; one with a full palette of 256 entries; the other colour types
\* without and with a tRNS chunk
PaletteSizes == {0, 1, 2}
TransChunks == {<<>>, <<255>>, <<0>>, <<255, 128>>, <<255, 255, 0>>}

PngImages ==
    {<<"PALETTE", np, tr>> : np \in PaletteSizes, tr \in TransChunks}
    \cup {<<"PALETTE", 256, <<255, 128>>>>}
    \cup {<<ct, 0, tr>> : ct \in PngColorTypes \ {"PALETTE"},
                          tr \in {<<>>, <<0>>}}

GpStart ==
    /\ gpPc = "ready"
    /\ fNeedsRewind = FALSE
    /\ rewindable \in BOOLEAN
    /\ gpCall = NoCall
    /\ gpResult = "none"
    /\ gpDst = <<>>
    /\ colorPass = <<>>
    /\ engineLog = [engine |-> "none", data |-> <<>>, rows |-> <<>>,
                    andRows |-> <<>>, opaqueRows |-> <<>>, first |-> <<>>,
                    short |-> FALSE, start |-> -1]
    /\ andBits = NoBits
    /\ fColorTableSet = FALSE
    /\ colorTable = NoTable
    /\ fReallyHasAlpha = FALSE
    /\ fSrcConfig = "kUnknown"
    /\ tableBuilt = FALSE
    /\ swizzlerBuilt = FALSE
    /\ numCalls = 0

Init ==
    /\ hdrPc = "done"
    /\ \/ \E h \in FacadeHeaders :
          \E negated \in NegateOutcomes(h.height) :
             /\ header = h
             /\ codec = NewFromStream(h, negated)
             /\ streamPos = StreamPosAfterParse(h)
       \/ \E img \in PngImages, il \in BOOLEAN :
             /\ header = NULL
             /\ codec = PngNewFromStream(img[1], img[2], img[3], il)
             /\ streamPos = 0
    /\ codec # NULL
    /\ RleIdle
    /\ GpStart
    /\ PngIdle

Next == onGetPixels_Bmp \/ onGetPixels_Png \/ NextRLE

Spec == Init /\ [][Next]_vars

\* ------------------------------------------------------------------------
\* The life of a PNG decoder: SkPngCodec::NewFromStream with its AutoCleanPng
\* guard, the scanline decoder, ~SkPngCodec
\* ------------------------------------------------------------------------
MaxScanOps == 3      \* calls made on one decoder and its scanline decoder

\* AutoCleanPng, lines 69-96; a pointer is modelled by whether it is set
AutoCleanPng_ctor(png_ptr) == [fPng_ptr |-> png_ptr, fInfo_ptr |-> FALSE]

setInfoPtr(g) == [g EXCEPT !.fInfo_ptr = TRUE]

detach_Forgotten(g) == g

detach(g) == [fPng_ptr |-> FALSE, fInfo_ptr |-> FALSE]

\* ~AutoCleanPng, lines 75-81: the structs png_destroy_read_struct is handed
AutoCleanPng_dtor(g) ==
    [png |-> g.fPng_ptr, info |-> g.fPng_ptr /\ g.fInfo_ptr]

\* what can happen in the factory: png_create_read_struct fails,
\* png_create_info_struct fails, png_read_info reports an error by a long
\* jump, or the header is read
FactoryEvents == {"no-png", "no-info", "jump-info", "read"}

\* lines 239-246: the sanity check for size, 0x7FFFFFFF >> 2 = 536870911
SizeRejected(origWidth, origHeight) ==
    LET size == origWidth * origHeight
    IN size < 0 \/ size > 536870911

\* SkPngCodec::NewFromStream, lines 200-330, as far as the two structs go:
\* [made, createdPng, createdInfo, guard]; guard is the AutoCleanPng as its
\* destructor finds it, NULL when none was constructed
NewFromStream_PngPair(event, origWidth, origHeight) ==
    LET g0 == AutoCleanPng_ctor(TRUE)
        g1 == setInfoPtr(g0)
    IN  IF event = "no-png"
            THEN [made |-> FALSE, createdPng |-> FALSE, createdInfo |-> FALSE,
                  guard |-> NULL]
        ELSE IF event = "no-info"
            THEN [made |-> FALSE, createdPng |-> TRUE, createdInfo |-> FALSE,
                  guard |-> g0]
        ELSE IF event = "jump-info"
            THEN [made |-> FALSE, createdPng |-> TRUE, createdInfo |-> TRUE,
                  guard |-> g1]
        ELSE IF SizeRejected(origWidth, origHeight)
            THEN [made |-> FALSE, createdPng |-> TRUE, createdInfo |-> TRUE,
                  guard |-> g1]
        ELSE [made |-> TRUE, createdPng |-> TRUE, createdInfo |-> TRUE,
              guard |-> detach(g1)]

\* the images the factory is tried on: a paletted one with a tRNS chunk, and
\* one of each other colour type
ScanImages ==
    {<<"PALETTE", 2, <<255, 128>>>>} \cup
    {<<ct, 0, <<>>>> : ct \in PngColorTypes \ {"PALETTE"}}

\* the dimensions of the images: the 1 x 2 of the destinations, the largest
\* square the size check lets through, and one just above the limit
PngDims == {<<1, 2>>, <<23170, 23170>>, <<32768, 16384>>}

\* a struct after the destructor of the guard has run
StructAfter(created, destroyed) ==
    IF ~created THEN "none" ELSE IF destroyed THEN "destroyed" ELSE "live"

NewFromStream_Png ==
    /\ pngPc = "start"
    /\ \E event \in FactoryEvents, img \in ScanImages, il \in BOOLEAN,
          dims \in PngDims :
          LET f == NewFromStream_PngPair(event, dims[1], dims[2])
              gone == IF f.guard = NULL THEN [png |-> FALSE, info |-> FALSE]
                                        ELSE AutoCleanPng_dtor(f.guard)
          IN  /\ codec' = IF f.made
                             THEN [PngNewFromStream(img[1], img[2], img[3], il)
                                     EXCEPT !.width = dims[1], !.height = dims[2]]
                             ELSE NULL
              /\ pngPc' = IF f.made THEN "codec" ELSE "null"
              /\ pngStruct' = StructAfter(f.createdPng, gone.png)
              /\ infoStruct' = StructAfter(f.createdInfo, gone.info)
              /\ pngDestroys' = pngDestroys + (IF gone.png THEN 1 ELSE 0)
              /\ infoDestroys' = infoDestroys + (IF gone.info THEN 1 ELSE 0)
              /\ factoryLog' = [event |-> event, createdPng |-> f.createdPng,
                                createdInfo |-> f.createdInfo,
                                guard |-> f.guard,
                                sizeRejected |-> SizeRejected(dims[1], dims[2])]
    /\ UNCHANGED <<rleVars, hdrPc, header, gpVars, scan, scanCall,
                   rowsConsumed, rowsAsked, producedAlpha, scanOps>>

\* ~SkPngCodec, lines 343-345
SkPngCodec_dtor ==
    /\ pngPc = "codec"
    /\ pngPc' = "deleted"
    /\ pngStruct' = "destroyed"
    /\ infoStruct' = "destroyed"
    /\ pngDestroys' = pngDestroys + 1
    /\ infoDestroys' = infoDestroys + 1
    /\ UNCHANGED <<rleVars, hdrVars, gpVars, factoryLog, scan, scanCall,
                   rowsConsumed, rowsAsked, producedAlpha, scanOps>>

\* mutant of NumberPasses: an interlaced image is read in one pass too
NumberPasses_One == IF codec.interlaced THEN 1 ELSE 1

\* fNumberPasses as initializeSwizzler sets it, lines 382-383: what
\* png_set_interlace_handling returns for an interlaced image, else 1
NumberPasses == IF codec.interlaced THEN 7 ELSE 1

\* what initializeSwizzler can meet when getScanlineDecoder calls it
ScanInitEvents == {"ok", "jump-init", "no-plte", "no-swizzler", "jump-update"}

\* SkPngCodec::onGetScanlineDecoder, lines 548-577: "dims", "conversion",
\* "swizzler", "interlaced" name the test that returned NULL, "decoder" the
\* return of a scanline decoder; s is what initializeSwizzler did
onGetScanlineDecoder(d, s) ==
    IF ~SameDimensions(d, codec) THEN "dims"
    ELSE IF ~conversion_possible_png(d, codec) THEN "conversion"
    ELSE IF s.result # kSuccess THEN "swizzler"
    ELSE IF NumberPasses > 1 THEN "interlaced"
    ELSE "decoder"

ScanFrame ==
    UNCHANGED <<rleVars, hdrVars, gpPc, fNeedsRewind, rewindable, streamPos,
                gpCall, gpResult, gpDst, colorPass, engineLog, andBits,
                tableBuilt, swizzlerBuilt, numCalls, pngPc, pngStruct,
                infoStruct, pngDestroys, infoDestroys, factoryLog>>

getScanlineDecoder ==
    /\ pngPc = "codec"
    /\ ~scan.live
    /\ scanOps < MaxScanOps
    /\ \E d \in PngDstInfos, event \in ScanInitEvents, stale \in StaleSlots :
       \E s \in {initializeSwizzler(d, event, stale)} :
          LET how == onGetScanlineDecoder(d, s)
              reached == how \in {"swizzler", "interlaced", "decoder"}
          IN  /\ scan' = IF how = "decoder"
                            THEN [live |-> TRUE, dstInfo |-> d,
                                  fHasAlpha |-> FALSE]
                            ELSE NoScan
              /\ scanCall' = [op |-> "getScanlineDecoder", dstInfo |-> d,
                              how |-> how]
              /\ fSrcConfig' = IF reached THEN s.config ELSE fSrcConfig
              /\ fReallyHasAlpha' = IF reached THEN s.hasAlpha
                                                ELSE fReallyHasAlpha
              /\ fColorTableSet' = (fColorTableSet \/ (reached /\ s.table))
              /\ colorTable' =
                    IF reached /\ s.pal.ok
                        THEN [entries |-> s.pal.entries, read |-> 0,
                              slotsRead |-> s.pal.slotsRead,
                              slotsWritten |-> s.pal.slotsWritten]
                        ELSE colorTable
    /\ scanOps' = scanOps + 1
    /\ UNCHANGED <<rowsConsumed, rowsAsked, producedAlpha>>
    /\ ScanFrame

\* the rows still to be asked for
RowsLeft == codec.height - rowsAsked

\* what png_read_rows can meet in a call: it delivers every row, or it
\* reports an error by a long jump at one of them
ScanRowEvents == {"ok", "jump-rows"}

\* one row of samples of the image per row asked for
ScanData(count) ==
    [0..(count - 1) -> [0..(codec.width - 1) -> Samples]]

\* line 516: dst = SkTAddOffset<void>(dst, rowBytes), once per row
DstOffset(i, rowBytes) == i * rowBytes

\* SkPngScanlineDecoder::onGetScanlines, lines 506-519: [result, writes,
\* read, hasAlpha]; n rows are read before the long jump, if any
onGetScanlines(count, rowBytes, n, data) ==
    LET row(i) == [c \in 0..(codec.width - 1) |->
                     PngSwizzle(fSrcConfig, data[i][c], colorTable.entries,
                                scan.dstInfo)]
    IN [result |-> IF n < count THEN kInvalidInput ELSE kSuccess,
        writes |-> [i \in 0..(n - 1) |->
                      [offset |-> DstOffset(i, rowBytes),
                       source |-> rowsConsumed + i,
                       pixels |-> row(i)]],
        read |-> n,
        hasAlpha |-> \E i \in 0..(n - 1) : ~RowOpaque(row(i))]

getScanlines ==
    /\ pngPc = "codec"
    /\ scan.live
    /\ scanOps < MaxScanOps
    /\ RowsLeft > 0
    /\ \E count \in 1..RowsLeft, rowBytes \in {4, 8},
          event \in ScanRowEvents :
       \E n \in (IF event = "ok" THEN {count} ELSE 0..(count - 1)),
          data \in ScanData(count) :
       \E e \in {onGetScanlines(count, rowBytes, n, data)} :
          /\ scan' = [scan EXCEPT !.fHasAlpha = scan.fHasAlpha \/ e.hasAlpha]
          /\ scanCall' = [op |-> "getScanlines", count |-> count,
                          rowBytes |-> rowBytes, before |-> rowsConsumed,
                          result |-> e.result, writes |-> e.writes]
          /\ rowsConsumed' = rowsConsumed + e.read
          /\ rowsAsked' = rowsAsked + count
          /\ producedAlpha' =
                (producedAlpha \/
                 \E i \in DOMAIN e.writes :
                    \E c \in DOMAIN e.writes[i].pixels :
                       e.writes[i].pixels[c][1] # 255)
    /\ scanOps' = scanOps + 1
    /\ UNCHANGED <<fSrcConfig, fReallyHasAlpha, fColorTableSet, colorTable>>
    /\ ScanFrame

\* the rows png_read_rows reads when row and display_row are both NULL, as
\* line 529 calls it: libpng's png_read_rows loops over whichever of the
\* two is set and so reads none, where skipScanlines is described as
\* pulling count rows; both are kept
RowsPulledByNullRead(count) == {0, count}

\* SkPngScanlineDecoder::onSkipScanlines, lines 521-531
skipScanlines ==
    /\ pngPc = "codec"
    /\ scan.live
    /\ scanOps < MaxScanOps
    /\ RowsLeft > 0
    /\ \E count \in 1..RowsLeft, event \in ScanRowEvents :
       \E pulled \in (IF event = "ok" THEN RowsPulledByNullRead(count)
                                        ELSE {0}) :
          /\ scanCall' = [op |-> "skipScanlines", count |-> count,
                          rowBytes |-> 0, before |-> rowsConsumed,
                          result |-> IF event = "ok" THEN kSuccess
                                                     ELSE kInvalidInput,
                          writes |-> <<>>]
          /\ rowsConsumed' = rowsConsumed + pulled
          /\ rowsAsked' = rowsAsked + count
    /\ scanOps' = scanOps + 1
    /\ UNCHANGED <<scan, producedAlpha, fSrcConfig, fReallyHasAlpha,
                   fColorTableSet, colorTable>>
    /\ ScanFrame

InitPng ==
    /\ pngPc = "start"
    /\ pngStruct = "none"
    /\ infoStruct = "none"
    /\ pngDestroys = 0
    /\ infoDestroys = 0
    /\ factoryLog = NoFactory
    /\ scan = NoScan
    /\ scanCall = NoScanCall
    /\ rowsConsumed = 0
    /\ rowsAsked = 0
    /\ producedAlpha = FALSE
    /\ scanOps = 0
    /\ HdrIdle
    /\ RleIdle
    /\ GpIdle

NextPng ==
    \/ NewFromStream_Png
    \/ getScanlineDecoder
    \/ getScanlines
    \/ skipScanlines
    \/ SkPngCodec_dtor

SpecPng == InitPng /\ [][NextPng]_vars


\* ------------------------------------------------------------------------
\* Properties of getPixels (Spec) and of the header parse (SpecHeader)
\* ------------------------------------------------------------------------
CallMade == gpCall.kind = "getPixels"

\* what the last call returned; a call that entered decodeRLE returns what
\* decodeRLE returns
FacadeResult ==
    IF gpPc = "rle"
        THEN IF rlePc = "done" THEN rleResult ELSE "pending"
        ELSE gpResult

CallRewound == ~gpCall.neededRewind \/ rewindable

CallSameDimensions ==
    gpCall.dstInfo.width = codec.width /\ gpCall.dstInfo.height = codec.height

CallConversionAllowed ==
    IF codec.kind = "bmp" THEN conversion_possible_bmp(gpCall.dstInfo, codec)
                          ELSE conversion_possible_png(gpCall.dstInfo, codec)

\* C1: for the BMP and the PNG decoder, getPixels returns CouldNotRewind when
\* rewindIfNeeded fails; otherwise InvalidScale when the destination
\* dimensions differ from the decoder's; otherwise InvalidConversion when the
\* conversion is not allowed.  A call that returns one of the three has
\* written no destination pixel and built no colour table and no swizzler.
C1_CheckOrder ==
    CallMade =>
        /\ ~CallRewound => FacadeResult = kCouldNotRewind
        /\ CallRewound /\ ~CallSameDimensions => FacadeResult = kInvalidScale
        /\ CallRewound /\ CallSameDimensions /\ ~CallConversionAllowed
              => FacadeResult = kInvalidConversion
        /\ FacadeResult \in {kCouldNotRewind, kInvalidScale, kInvalidConversion}
              => /\ gpPc = "returned"
                 /\ gpDst = GarbageDst(gpCall.dstInfo)
                 /\ ~tableBuilt
                 /\ ~swizzlerBuilt

\* a second call on a stream that cannot rewind, with a destination of the
\* wrong size and of a colour type that cannot be converted to
C1_Witness ==
    /\ CallMade
    /\ ~CallRewound
    /\ ~CallSameDimensions
    /\ ~CallConversionAllowed
    /\ gpResult = kCouldNotRewind
    /\ fColorTableSet

\* the rule of claim C2 for a source of alpha type srcAlpha
AlphaAccepted(dstAlpha, srcAlpha) ==
    \/ dstAlpha = srcAlpha
    \/ srcAlpha = kUnpremul_SkAlphaType /\ dstAlpha = kPremul_SkAlphaType

InfoAccepted(dst, src) ==
    /\ dst.colorType = kN32_SkColorType
    /\ dst.profileType = src.profileType
    /\ AlphaAccepted(dst.alphaType, src.alphaType)

\* every destination, and every source a factory can describe (colour type
\* N32) with any alpha type and profile
AllDstInfos ==
    [width : {1}, height : {2}, colorType : ColorTypes, alphaType : AlphaTypes,
     profileType : ProfileTypes]

AllSrcInfos ==
    [width : {1}, height : {2}, colorType : {kN32_SkColorType},
     alphaType : AlphaTypes, profileType : ProfileTypes]

\* C2: a getPixels call that passed the rewind and dimension checks returns
\* InvalidConversion exactly when the destination is not N32, or its profile
\* type differs from the source's, or its alpha type is neither the source's
\* nor Premul for an Unpremul source; and both conversion_possible functions
\* compute that rule for every pairing of alpha types.
C2_ConversionRule ==
    /\ \A dst \in AllDstInfos, src \in AllSrcInfos :
          /\ conversion_possible_bmp(dst, src) <=> InfoAccepted(dst, src)
          /\ conversion_possible_png(dst, src) <=> InfoAccepted(dst, src)
    /\ (CallMade /\ CallRewound /\ CallSameDimensions) =>
          (FacadeResult = kInvalidConversion
              <=> ~InfoAccepted(gpCall.dstInfo, codec))

\* an Unpremul source decoded to a Premul destination
C2_Witness ==
    /\ CallMade
    /\ codec.alphaType = kUnpremul_SkAlphaType
    /\ gpCall.dstInfo.alphaType = kPremul_SkAlphaType
    /\ gpResult = kSuccess

\* C3 (as claimed): after a successful header parse the decoder's width and
\* height are both > 0 and < 2^16, and a header whose 32-bit width or height
\* field is 2^16 is rejected.
C3_DimensionsInRange ==
    /\ (hdrPc = "done" /\ codec # NULL) =>
          /\ codec.width > 0 /\ codec.width < kBmpMaxDim
          /\ codec.height > 0 /\ codec.height < kBmpMaxDim
    /\ (hdrPc = "done" /\ header.infoBytes >= kBmpInfoBaseBytes
          /\ ~header.isIco
          /\ (header.width = kBmpMaxDim \/ header.height = kBmpMaxDim))
          => codec = NULL

\* the destination row of input row yy under the decoder's row order
RowOrderRow(yy, height) ==
    IF codec.fRowOrder = kTopDown_RowOrder THEN yy ELSE height - 1 - yy

\* C4 (as claimed): when getPixels returns Success for an ICO-embedded BMP,
\* decoded by the Standard or the BitMask engine, every destination pixel
\* whose AND-mask bit is 1 is 0x00000000 and every other pixel is as the
\* colour pass wrote it, the AND rows mapped with the decoder's row order.
C4_IcoAndMask ==
    (CallMade /\ codec.kind = "bmp" /\ codec.fIsIco /\ gpPc = "returned"
        /\ gpResult = kSuccess) =>
        \A yy \in 0..(codec.height - 1), c \in 0..(codec.width - 1) :
            LET r == RowOrderRow(yy, codec.height)
            IN IF andBits[yy][c] = 1
                  THEN gpDst[r][c] = ZeroPixel
                  ELSE gpDst[r][c] = colorPass[r][c]

\* the last call ran the Standard engine / the BitMask engine of a BMP decoder
StandardCall ==
    CallMade /\ codec.kind = "bmp" /\ gpPc = "returned"
        /\ engineLog.engine = "standard"

MaskCall ==
    CallMade /\ codec.kind = "bmp" /\ gpPc = "returned"
        /\ engineLog.engine = "mask"

\* the pixel the Standard engine's swizzler makes of sample s in the last call
StandardPixel(s) ==
    SwizzlePixel(SwizzlerConfig(codec.fBitsPerPixel, gpCall.dstInfo.alphaType),
                 s, gpCall.dstInfo, codec.fNumColors)

\* C11: when the Standard engine returns Success for an image of height h,
\* the y-th row read was swizzled to destination row y (TopDown) or h-1-y
\* (BottomUp): every destination row in [0, h) is written by exactly one
\* input row, none outside [0, h) is written, and the colour pass left in
\* each destination row the pixels of its input row.
C11_StandardRowOrder ==
    (StandardCall /\ gpResult = kSuccess) =>
        LET h == codec.height
            rows == engineLog.rows
        IN /\ Len(rows) = h
           /\ \A yy \in 0..(h - 1) :
                 /\ rows[yy + 1] = <<yy, IF codec.fRowOrder = kTopDown_RowOrder
                                            THEN yy ELSE h - 1 - yy>>
                 /\ \A c \in 0..(codec.width - 1) :
                       colorPass[rows[yy + 1][2]][c]
                           = StandardPixel(engineLog.data[yy + 1][c])
           /\ \A r \in 0..(h - 1) :
                 Cardinality({k \in 1..h : rows[k][2] = r}) = 1
           /\ \A k \in 1..h : rows[k][2] \in 0..(h - 1)

\* a bottom-up image whose two rows differ, decoded completely
C11_Witness ==
    /\ StandardCall
    /\ gpResult = kSuccess
    /\ codec.fRowOrder = kBottomUp_RowOrder
    /\ codec.height = 2
    /\ engineLog.data[1][0] # engineLog.data[2][0]
    /\ colorPass[1][0] = StandardPixel(engineLog.data[1][0])
    /\ colorPass[0][0] # colorPass[1][0]

\* C12: when the Standard engine's read of input row k comes back short,
\* decode returns IncompleteInput, the destination rows of input rows
\* 0..k-1 hold their decoded pixels, every other destination row is left
\* as it was, and no row of an ICO's AND mask is read or applied.
C12_StandardShortRead ==
    (StandardCall /\ Len(engineLog.data) < codec.height) =>
        LET h == codec.height
            k == Len(engineLog.data)
            DstRow(yy) == IF codec.fRowOrder = kTopDown_RowOrder
                             THEN yy ELSE h - 1 - yy
        IN /\ gpResult = kIncompleteInput
           /\ \A yy \in 0..(k - 1) : \A c \in 0..(codec.width - 1) :
                 gpDst[DstRow(yy)][c] = StandardPixel(engineLog.data[yy + 1][c])
           /\ \A r \in 0..(h - 1) :
                 (\A yy \in 0..(k - 1) : DstRow(yy) # r)
                     => \A c \in 0..(codec.width - 1) : gpDst[r][c] = Garbage
           /\ engineLog.andRows = <<>>

\* an ICO whose second colour row is cut off: the first row is decoded
C12_Witness ==
    /\ StandardCall
    /\ codec.fIsIco
    /\ codec.height = 2
    /\ Len(engineLog.data) = 1
    /\ gpResult = kIncompleteInput
    /\ gpDst[IF codec.fRowOrder = kTopDown_RowOrder THEN 0 ELSE 1][0] # Garbage

\* the stream ran short while the pixel engine of the last call read pixel
\* data: a row read of the Standard or BitMask engine or a read made by
\* png_read_rows came back short, or decodeRLE got fewer bytes than it
\* asked for
EngineReadShort ==
    /\ CallMade
    /\ \/ gpPc = "returned" /\ engineLog.short
       \/ gpPc = "rle" /\ rlePc = "done" /\ totalBytes < fRLEBytes

\* C13: whenever the stream runs short while a pixel engine reads pixel
\* data (Standard, BitMask, RLE or the PNG row loop), getPixels returns
\* IncompleteInput.
C13_ShortReadIsIncomplete ==
    EngineReadShort => FacadeResult = kIncompleteInput

\* the same for the two BMP row engines alone
C13_BmpRowEnginesIncomplete ==
    (CallMade /\ gpPc = "returned" /\ engineLog.short
        /\ engineLog.engine \in {"standard", "mask"})
            => FacadeResult = kIncompleteInput

\* the PNG row loop with a stream that ends early returns InvalidInput
C13_PngShortIsInvalid ==
    (CallMade /\ gpPc = "returned" /\ engineLog.short
        /\ engineLog.engine = "png") => FacadeResult = kInvalidInput

\* the destination the BitMask engine makes of the rows of the last call
\* when the destination's alpha type is alphaType
MaskDecodeAs(alphaType) ==
    LET d == [gpCall.dstInfo EXCEPT !.alphaType = alphaType]
        rowBytes == SkAlign4(compute_row_bytes(d.width, codec.fBitsPerPixel))
    IN decodeMask(d, streamPos - d.height * rowBytes,
                  [v \in 0..(d.height - 1) |-> engineLog.data[v + 1]]).dst

\* every row of the first pass has alpha 0 in every pixel
FirstPassTransparent ==
    \A r \in DOMAIN engineLog.first : \A c \in DOMAIN engineLog.first[r] :
        engineLog.first[r][c][1] = 0

\* C14: when the BitMask engine has decoded every row and every row of the
\* first pass was reported Transparent, a second pass swizzles every input
\* row with alpha type Opaque into the destination row of the first pass,
\* and the destination equals that of decoding the image with an Opaque
\* destination; when some row was not Transparent there is no second pass
\* and the destination is that of the first pass.
C14_MaskOpaqueRepass ==
    (MaskCall /\ gpResult = kSuccess) =>
        IF FirstPassTransparent
            THEN /\ engineLog.opaqueRows = engineLog.rows
                 /\ Len(engineLog.opaqueRows) = codec.height
                 /\ gpDst = MaskDecodeAs(kOpaque_SkAlphaType)
                 /\ \A r \in DOMAIN gpDst : \A c \in DOMAIN gpDst[r] :
                        gpDst[r][c][1] = 255
            ELSE /\ engineLog.opaqueRows = <<>>
                 /\ gpDst = engineLog.first

\* a transparent first pass whose second pass changed the destination
C14_Witness ==
    /\ MaskCall
    /\ gpResult = kSuccess
    /\ FirstPassTransparent
    /\ gpCall.dstInfo.alphaType # kOpaque_SkAlphaType
    /\ gpDst # engineLog.first
    /\ engineLog.opaqueRows # <<>>

\* a first pass with a row that is not transparent
C14_WitnessNoRepass ==
    /\ MaskCall
    /\ gpResult = kSuccess
    /\ gpCall.dstInfo.alphaType # kOpaque_SkAlphaType
    /\ \E r \in DOMAIN engineLog.first : engineLog.first[r][0][1] = 0
    /\ \E r \in DOMAIN engineLog.first : engineLog.first[r][0][1] # 0
    /\ gpDst = engineLog.first

\* the factory returned a BMP decoder
HeaderParsed == hdrPc = "done" /\ codec # NULL

\* C15 as stated: after every successful BMP header parse (plain or in an
\* ICO), a decoder whose alpha mask is 0 has the default alpha type Opaque.
C15_NoAlphaMaskIsOpaque ==
    (HeaderParsed /\ codec.fMasks.alpha = NoMask)
        => codec.alphaType = kOpaque_SkAlphaType

\* C15 amended: after every successful BMP header parse, a decoder whose
\* alpha mask is 0 has the default alpha type Opaque unless it is an
\* ICO-embedded BMP of 32 bits per pixel, whose default alpha type is
\* Unpremul whatever its alpha mask.
C15_NoAlphaMaskIsOpaqueUnlessIco32 ==
    HeaderParsed =>
        /\ (codec.fMasks.alpha = NoMask /\ ~(codec.fIsIco /\ codec.fBitsPerPixel = 32))
              => codec.alphaType = kOpaque_SkAlphaType
        /\ (codec.fIsIco /\ codec.fBitsPerPixel = 32)
              => codec.alphaType = kUnpremul_SkAlphaType

\* a V4 header, which holds an alpha mask, with the alpha mask 0
C15_Witness ==
    /\ HeaderParsed
    /\ header.infoBytes = kBmpInfoV4Bytes
    /\ codec.fBitsPerPixel = 32
    /\ ~codec.fIsIco
    /\ codec.fMasks.alpha = NoMask
    /\ codec.alphaType = kOpaque_SkAlphaType

\* the last call was made on a plain BMP and passed the checks of lines
\* 518-528
PlainBmpCallProceeded ==
    /\ CallMade
    /\ codec.kind = "bmp"
    /\ ~codec.fIsIco
    /\ CallRewound /\ CallSameDimensions /\ CallConversionAllowed

\* the bytes of the colour table of the decoder of the last call
ColorBytesOf ==
    IF codec.fBitsPerPixel <= 8 THEN codec.fNumColors * codec.fBytesPerColor
                                ELSE 0

\* C16: on every getPixels call on a plain BMP decoder, the first and any
\* later one made after a rewind, once createColorTable has succeeded the
\* stream is at the header's pixel data offset, where the pixel engine
\* starts to read; and createColorTable fails, getPixels returning
\* InvalidInput, when the offset less the header bytes read is smaller than
\* the byte count of the colour table.
C16_EngineStartsAtPixelData ==
    PlainBmpCallProceeded =>
        /\ tableBuilt => engineLog.start = header.offset
        /\ codec.fOffset < ColorBytesOf
              => (~tableBuilt /\ FacadeResult = kInvalidInput)

\* the first call on a decoder does start the engine at the pixel data
C16_FirstCallAtPixelData ==
    (PlainBmpCallProceeded /\ ~gpCall.neededRewind /\ tableBuilt)
        => engineLog.start = header.offset

\* a call made after a rewind starts the engine fOffset bytes into the file
C16_RewoundCallAtFOffset ==
    (PlainBmpCallProceeded /\ gpCall.neededRewind /\ tableBuilt)
        => engineLog.start = codec.fOffset

\* the colour table does not fit before the pixel data: InvalidInput
C16_TableTooLargeFails ==
    (PlainBmpCallProceeded /\ codec.fOffset < ColorBytesOf)
        => (~tableBuilt /\ FacadeResult = kInvalidInput)

\* the last call built the colour table of an image of at most 8 bits per
\* pixel
TableCall ==
    /\ CallMade
    /\ codec.kind = "bmp"
    /\ gpPc \in {"returned", "rle"}
    /\ codec.fBitsPerPixel <= 8
    /\ colorTable.entries # <<>>

\* the colour count createColorTable is to use for the header's count
NumColorsFor(headerColors, bitsPerPixel) ==
    IF headerColors = 0 \/ headerColors >= 2 ^ bitsPerPixel
        THEN 2 ^ bitsPerPixel ELSE headerColors

\* the first numColors entries are the stream's blue, green, red bytes with
\* alpha a; the others are opaque black
TableHolds(a) ==
    LET n == NumColorsFor(header.numColors, codec.fBitsPerPixel)
        premul == gpCall.dstInfo.alphaType = kPremul_SkAlphaType
    IN /\ DOMAIN colorTable.entries = 0..(2 ^ codec.fBitsPerPixel - 1)
       /\ codec.fNumColors = n
       /\ colorTable.read = n * codec.fBytesPerColor
       /\ \A i \in 0..(n - 1) :
             colorTable.entries[i] =
                IF premul
                    THEN SkPreMultiplyARGB(a[i], PaletteBytes(i)[3],
                                           PaletteBytes(i)[2], PaletteBytes(i)[1])
                    ELSE <<a[i], PaletteBytes(i)[3], PaletteBytes(i)[2],
                           PaletteBytes(i)[1]>>
       /\ \A i \in n..(2 ^ codec.fBitsPerPixel - 1) :
             colorTable.entries[i] = <<255, 0, 0, 0>>

\* C17: for at most 8 bits per pixel createColorTable builds a table of
\* exactly 2^bpp entries: a header colour count of 0 or of at least 2^bpp
\* is replaced by 2^bpp, exactly numColors * bytesPerColor bytes are read,
\* entries [0, numColors) are the stream's bytes in blue, green, red
\* (, alpha) order, alpha being 255 for an Opaque destination or a 3-byte
\* entry, and entries [numColors, 2^bpp) are opaque black.
C17_ColorTable ==
    TableCall =>
        TableHolds([i \in 0..255 |->
            IF gpCall.dstInfo.alphaType = kOpaque_SkAlphaType
                   \/ codec.fBytesPerColor # 4
                THEN 255 ELSE PaletteBytes(i)[4]])

\* all of it but the alpha of the entries holds: for a destination that is
\* not Opaque the alpha is the stream's fourth byte under the top byte of
\* the alpha mask
C17_ColorTableMaskedAlpha ==
    TableCall =>
        TableHolds([i \in 0..255 |->
            IF gpCall.dstInfo.alphaType = kOpaque_SkAlphaType THEN 255
            ELSE BitsValue({b \in ByteBits(PaletteBytes(i)[4]) :
                                (b + 24) \in codec.fMasks.alpha})])

\* the compression field the factory read from the header (lines 226-259: a
\* header too short to hold the field means no compression)
CompressionRead ==
    IF header.infoBytes >= kBmpInfoBaseBytes /\ header.infoBytes - 4 >= 16
        THEN header.compression ELSE kNone_BitmapCompressionMethod

C18_WitnessRle ==
    /\ HeaderParsed
    /\ \/ CompressionRead = 4 /\ codec.fBitsPerPixel = 24
       \/ CompressionRead = 1 /\ header.bitsPerPixel = 0
    /\ codec.fInputFormat = kRLE_BitmapInputFormat

\* the last call was made on a PNG decoder and returned
PngCall == CallMade /\ codec.kind = "png" /\ gpPc = "returned"

\* some pixel of the destination of the last call is not opaque
SomePixelNotOpaque ==
    \E r \in DOMAIN gpDst : \E c \in DOMAIN gpDst[r] : gpDst[r][c][1] # 255

\* C19: after a successful PNG getPixels, reallyHasAlpha is true exactly
\* when some destination pixel of that decode is not opaque; so for a
\* paletted PNG it is false when no pixel uses a palette index whose tRNS
\* alpha is below 255.
C19_ReallyHasAlphaIffPixel ==
    (PngCall /\ gpResult = kSuccess) =>
        (fReallyHasAlpha <=> SomePixelNotOpaque)

\* one direction holds: a pixel that is not opaque sets reallyHasAlpha
C19_PixelSetsReallyHasAlpha ==
    (PngCall /\ gpResult = kSuccess /\ SomePixelNotOpaque) => fReallyHasAlpha

\* the equivalence holds for every colour type but PALETTE
C19_NotPalettedIff ==
    (PngCall /\ gpResult = kSuccess /\ codec.pngColorType # "PALETTE") =>
        (fReallyHasAlpha <=> SomePixelNotOpaque)

\* for a paletted PNG reallyHasAlpha is true exactly when a tRNS entry of
\* the palette is below 255 or some pixel is not opaque
C19_PalettedIffTrans ==
    (PngCall /\ gpResult = kSuccess /\ codec.pngColorType = "PALETTE") =>
        (fReallyHasAlpha <=>
            \/ SomePixelNotOpaque
            \/ \E i \in 1..Min(Len(codec.trans), codec.numPalette) :
                  codec.trans[i] < 255)

\* the last call ran decodePalette to its end
PaletteCall ==
    /\ CallMade
    /\ codec.kind = "png"
    /\ gpPc = "returned"
    /\ colorTable.entries # <<>>

\* the table decodePalette is to build for a palette of at least one entry
PaletteTableHolds ==
    LET n == codec.numPalette
        numTrans == Min(Len(codec.trans), n)
        premul == gpCall.dstInfo.alphaType = kPremul_SkAlphaType
        c(i) == PngPaletteColor(i)
        entries == colorTable.entries
    IN /\ \A i \in 0..(n - 1) :
             LET a == IF i < numTrans THEN codec.trans[i + 1] ELSE 255
             IN /\ entries[i][1] = a
                /\ entries[i] = IF premul
                                   THEN SkPreMultiplyARGB(a, c(i).r, c(i).g, c(i).b)
                                   ELSE <<a, c(i).r, c(i).g, c(i).b>>
       /\ (1 <= n /\ n < 256) =>
             /\ DOMAIN entries = 0..n
             /\ entries[n] = entries[n - 1]
       /\ n = 256 => DOMAIN entries = 0..255

\* C20: decodePalette gives entry i the alpha tRNS[i] for i below
\* min(num_trans, numPalette) and 255 for the other entries below numPalette,
\* the colours premultiplied exactly when the destination is Premul; for
\* 1 <= numPalette < 256 the table has numPalette + 1 entries, the last a
\* copy of entry numPalette - 1, and for numPalette = 256 it has 256; and
\* for every numPalette in 0..256 no slot outside the 256 slots of
\* colorStorage is read or written.
C20_PaletteTable ==
    PaletteCall =>
        /\ PaletteTableHolds
        /\ colorTable.slotsRead \subseteq ColorStorageSlots
        /\ colorTable.slotsWritten \subseteq ColorStorageSlots

\* with the empty palette left out the claim holds
C20_PaletteTableNotEmpty ==
    (PaletteCall /\ codec.numPalette >= 1) =>
        /\ PaletteTableHolds
        /\ colorTable.slotsRead \subseteq ColorStorageSlots
        /\ colorTable.slotsWritten \subseteq ColorStorageSlots

\* the empty palette: the slot before colorStorage is read, and what it
\* holds becomes the one entry of the table
C20_EmptyPaletteReadsBefore ==
    (PaletteCall /\ codec.numPalette = 0) =>
        /\ colorTable.slotsRead = {-1}
        /\ DOMAIN colorTable.entries = {0}

\* the last PNG call got past the resolution of fSrcConfig in
\* initializeSwizzler: it built a swizzler, or failed to create one
ConfigResolved ==
    /\ PngCall
    /\ (swizzlerBuilt \/ gpResult = kUnimplemented)

\* the srcConfig the table of the specification gives
TableSrcConfig(colorType, d) ==
    IF colorType = "PALETTE" /\ d.colorType = kN32_SkColorType THEN "kIndex"
    ELSE IF colorType = "GRAY" /\ d.colorType = kAlpha_8_SkColorType
        THEN "kGray"
    ELSE IF d.colorType = kN32_SkColorType /\ d.alphaType = kOpaque_SkAlphaType
        THEN "kRGBX"
    ELSE IF d.colorType = kN32_SkColorType THEN "kRGBA"
    ELSE "kUnknown"

C21_WitnessRGBX ==
    /\ ConfigResolved
    /\ codec.pngColorType = "GRAY"
    /\ fSrcConfig = "kRGBX"

\* a call with an Alpha8 destination never reaches the resolution: the
\* decoder's own colour type is N32 and the conversion check refuses it
C21_Alpha8IsRefused ==
    (PngCall /\ gpCall.dstInfo.colorType = kAlpha_8_SkColorType) =>
        /\ gpResult \in {kCouldNotRewind, kInvalidScale, kInvalidConversion}
        /\ ~swizzlerBuilt

\* ------------------------------------------------------------------------
\* Properties of the PNG decoder's life and its scanline decoder (SpecPng)
\* ------------------------------------------------------------------------
\* the last call was getScanlineDecoder
ScanDecoderCall == scanCall.op = "getScanlineDecoder"

\* C22: getScanlineDecoder returns null for every interlaced PNG, and when
\* the requested dimensions differ from the header's or the conversion is
\* not allowed; a scanline decoder is returned only for a PNG that is not
\* interlaced, with matching dimensions and an allowed conversion.
C22_ScanlineDecoderRefusals ==
    ScanDecoderCall =>
        /\ codec.interlaced => ~scan.live
        /\ ~SameDimensions(scanCall.dstInfo, codec) => ~scan.live
        /\ ~InfoAccepted(scanCall.dstInfo, codec) => ~scan.live
        /\ scan.live =>
              /\ ~codec.interlaced
              /\ SameDimensions(scanCall.dstInfo, codec)
              /\ InfoAccepted(scanCall.dstInfo, codec)

\* an interlaced image with matching dimensions, an allowed conversion and a
\* swizzler was refused
C22_Witness ==
    /\ ScanDecoderCall
    /\ codec.interlaced
    /\ scanCall.how = "interlaced"
    /\ ~scan.live

\* a scanline decoder was returned
C22_WitnessDecoder == ScanDecoderCall /\ scan.live

\* the last call was a getScanlines or skipScanlines that returned Success
ScanRowsCall ==
    /\ scanCall.op \in {"getScanlines", "skipScanlines"}
    /\ scanCall.result = kSuccess

\* the writes of a getScanlines call of count rows after k rows: row k + i
\* at dst + i * rowBytes
WritesInOrder ==
    /\ DOMAIN scanCall.writes = 0..(scanCall.count - 1)
    /\ \A i \in DOMAIN scanCall.writes :
          /\ scanCall.writes[i].offset = i * scanCall.rowBytes
          /\ scanCall.writes[i].source = scanCall.before + i

\* C23: on the scanline decoder of a PNG that is not interlaced, a
\* getScanlines or skipScanlines call made after k rows were consumed
\* consumes the next count rows; getScanlines writes row k + i at
\* dst + i * rowBytes and nowhere else, skipScanlines writes nothing; and
\* reallyHasAlpha of the scanline decoder is true exactly when a row
\* getScanlines produced so far was not opaque.
C23_ScanlinesInOrder ==
    /\ ScanRowsCall =>
          /\ rowsConsumed = scanCall.before + scanCall.count
          /\ scanCall.op = "getScanlines" => WritesInOrder
          /\ scanCall.op = "skipScanlines" => scanCall.writes = <<>>
    /\ scan.live => (scan.fHasAlpha <=> producedAlpha)

\* the part of C23 on getScanlines
C23_GetScanlinesInOrder ==
    (ScanRowsCall /\ scanCall.op = "getScanlines") =>
        /\ rowsConsumed = scanCall.before + scanCall.count
        /\ WritesInOrder

\* the part of C23 on the writes of skipScanlines and on reallyHasAlpha
C23_SkipWritesNothing ==
    /\ scanCall.op = "skipScanlines" => scanCall.writes = <<>>
    /\ scan.live => (scan.fHasAlpha <=> producedAlpha)

\* a skipScanlines call that returned Success and left the rows where they
\* were, followed by a getScanlines that so produced an earlier row
C23_SkipPulledNothing ==
    /\ ScanRowsCall
    /\ scanCall.op = "getScanlines"
    /\ rowsAsked > rowsConsumed

\* a struct the factory created was destroyed once; one it did not create
\* was never destroyed
DestroyedOnceIfCreated(created, struct, destroys) ==
    IF created THEN struct = "destroyed" /\ destroys = 1
               ELSE struct = "none" /\ destroys = 0

\* C24: the png/info pair the factory creates is destroyed exactly once on
\* every path: by the guard when the factory returns no decoder (the info
\* allocation fails, png_read_info long-jumps, the size check rejects), by
\* the decoder's destructor when a decoder was returned, the guard having
\* been detached; never twice, and it is not left alive.
C24_PairDestroyedOnce ==
    /\ pngDestroys <= 1
    /\ infoDestroys <= 1
    /\ pngPc = "null" =>
          /\ DestroyedOnceIfCreated(factoryLog.createdPng, pngStruct,
                                    pngDestroys)
          /\ DestroyedOnceIfCreated(factoryLog.createdInfo, infoStruct,
                                    infoDestroys)
    /\ pngPc = "codec" =>
          /\ factoryLog.guard = [fPng_ptr |-> FALSE, fInfo_ptr |-> FALSE]
          /\ pngStruct = "live" /\ infoStruct = "live"
          /\ pngDestroys = 0 /\ infoDestroys = 0
    /\ pngPc = "deleted" =>
          /\ pngStruct = "destroyed" /\ infoStruct = "destroyed"
          /\ pngDestroys = 1 /\ infoDestroys = 1

\* the factory returned no decoder after a long jump out of png_read_info,
\* and the guard destroyed both structs
C24_Witness ==
    /\ pngPc = "null"
    /\ factoryLog.event = "jump-info"
    /\ pngDestroys = 1
    /\ infoDestroys = 1

\* the other paths: the info allocation failed, the size check rejected, a
\* decoder was returned and later destroyed
C24_WitnessNoInfo ==
    pngPc = "null" /\ factoryLog.event = "no-info" /\ pngDestroys = 1

C24_WitnessSize ==
    /\ pngPc = "null"
    /\ factoryLog.event = "read"
    /\ factoryLog.sizeRejected
    /\ infoDestroys = 1

C24_WitnessDecoder == pngPc = "deleted" /\ pngDestroys = 1

\* ------------------------------------------------------------------------
\* Properties of decodeRLE (checked under SpecRLE)
\* ------------------------------------------------------------------------
\* the last iteration read an opcode pair
PairRead == lastOp.kind \notin {"none", "short"}

AllCells == {<<r, c>> : r \in 0..(rleHeight - 1), c \in 0..(rleWidth - 1)}

\* C5: decodeRLE returns Success if and only if the last pair it consumed is
\* the end-of-image pair (0,1); when the bytes run out before such a pair it
\* returns IncompleteInput, also when every pixel has been written; and a
\* pair other than (0,1) read while y >= height returns IncompleteInput
\* without writing a pixel.
C5_SuccessIffEndOfImage ==
    /\ [](rlePc = "done" =>
            /\ (rleResult = kSuccess) <=>
                   (PairRead /\ lastOp.flag = 0 /\ lastOp.task = 1)
            /\ (lastOp.kind \in {"short", "delta-short", "run-short"}
                   => rleResult = kIncompleteInput))
    /\ [][(rlePc = "loop" /\ rlePc' # "loop" /\ y >= rleHeight
              /\ ~(lastOp'.flag = 0 /\ lastOp'.task = 1))
            => (rleResult' = kIncompleteInput /\ rleDst' = rleDst
                /\ written' = written)]_vars
    /\ [][(rlePc = "loop" /\ y >= rleHeight /\ BytesLeft(currByte) >= 2
              /\ numOps < MaxOps)
            => rlePc' = "done"]_vars

\* C5 witness: every pixel of a 2x1 image is written and the stream then
\* runs out of bytes
C5_Witness ==
    /\ rlePc = "done"
    /\ rleResult = kIncompleteInput
    /\ lastOp.kind = "short"
    /\ AllCells # {}
    /\ written = AllCells

\* C6: after decodeRLE returns Success or IncompleteInput every pixel of the
\* image that no run or absolute run wrote is 0x00000000, whatever the
\* destination held before the call.
C6_UnwrittenPixelsAreZero ==
    (rlePc = "done" /\ rleResult \in {kSuccess, kIncompleteInput}) =>
        \A cell \in AllCells \ written : rleDst[cell[1]][cell[2]] = ZeroPixel

\* C6 witness: a decode that ended with some pixels written and others not
C6_Witness ==
    /\ rlePc = "done"
    /\ rleResult = kSuccess
    /\ written # {}
    /\ AllCells \ written # {}

\* C7 (as claimed): in RLE24 an absolute run (0, b) with b >= 3 that fits
\* the row and has its bytes writes b pixels, advances x by b, consumes 3*b
\* bytes plus a padding byte when 3*b is odd, and decoding continues.
C7_Rle24AbsoluteRun ==
    (/\ lastOp.kind = "absolute"
     /\ fBitsPerPixel = 24
     /\ lastOp.task >= 3
     /\ lastOp.x0 + lastOp.task <= rleWidth
     /\ totalBytes - (lastOp.c0 + 2) >= SkAlign2(3 * lastOp.task))
    => /\ rlePc = "loop"
       /\ x = lastOp.x0 + lastOp.task
       /\ lastOp.count = lastOp.task
       /\ currByte = lastOp.c0 + 2 + 3 * lastOp.task + ((3 * lastOp.task) % 2)

\* an absolute run at bpp 4 with an odd pixel count was decoded
OddAbsoluteRun4 ==
    /\ lastOp.kind = "absolute"
    /\ lastOp.ok
    /\ fBitsPerPixel = 4
    /\ lastOp.task >= 3
    /\ lastOp.task % 2 = 1

CeilHalf(b) == (b + 1) \div 2

\* C8 (as claimed): in RLE4 every absolute run with an odd pixel count
\* b >= 3 consumes ceil(b/2) data bytes and then one padding byte.
C8_OddRunAlwaysPadded ==
    OddAbsoluteRun4 =>
        currByte = lastOp.c0 + 2 + CeilHalf(lastOp.task) + 1

\* C8 (amended): in RLE4 an absolute run with an odd pixel count b >= 3
\* consumes ceil(b/2) data bytes, followed by one padding byte exactly when
\* ceil(b/2) is odd; the next opcode pair is read after them.
C8_OddRunPaddedToEven ==
    OddAbsoluteRun4 =>
        /\ rlePc = "loop"
        /\ currByte = lastOp.c0 + 2 + CeilHalf(lastOp.task)
                      + (IF CeilHalf(lastOp.task) % 2 = 1 THEN 1 ELSE 0)

\* C8 witness: a run of 5 pixels, whose 3 data bytes are followed by padding
C8_Witness ==
    /\ OddAbsoluteRun4
    /\ lastOp.task = 5
    /\ currByte = lastOp.c0 + 6

\* C9: a delta (0, 2, dx, dy) sets x := x + dx, y := y + dy and is accepted
\* if and only if the new x <= width and the new y <= height, otherwise
\* decodeRLE returns IncompleteInput; no pixel is ever written at a column
\* >= width or a row >= height.
C9_DeltaBounds ==
    /\ lastOp.kind = "delta" =>
          /\ x = lastOp.x0 + lastOp.dx
          /\ y = lastOp.y0 + lastOp.dy
          /\ (rlePc = "loop") <=> (x <= rleWidth /\ y <= rleHeight)
          /\ rlePc # "loop" => rleResult = kIncompleteInput
    /\ ~oobWrite
    /\ written \subseteq AllCells

\* C9 witness: a delta that lands exactly on (width, height) is accepted
C9_Witness ==
    /\ lastOp.kind = "delta"
    /\ rlePc = "loop"
    /\ lastOp.dx > 0 /\ lastOp.dy > 0
    /\ x = rleWidth
    /\ y = rleHeight

\* the colour an encoded run at bpp 4 or 8 puts in the k-th pixel it writes
RunColour(task, k) ==
    IF fBitsPerPixel = 4
        THEN (IF k % 2 = 0 THEN RleColorTable(task \div 16)
                           ELSE RleColorTable(task % 16))
        ELSE RleColorTable(task)

\* C10: an encoded run (a, b), a >= 1, read while y < height writes exactly
\* min(a, width - x) pixels, at columns x..min(x + a, width) - 1 of cursor
\* row y, and leaves x = min(x + a, width); at bpp 8 each is colorTable[b],
\* at bpp 4 they alternate colorTable[b >> 4], colorTable[b & 15] starting
\* high; a run that overflows the row is truncated, not an error.
C10_EncodedRun ==
    [][lastOp'.kind = "run" =>
        LET a == lastOp'.flag
            b == lastOp'.task
            endX == Min(x + a, rleWidth)
            row == RleRow(y)
        IN /\ a >= 1 /\ y < rleHeight
           /\ rlePc' = "loop"
           /\ x' = endX
           /\ y' = y
           /\ lastOp'.count = Min(a, rleWidth - x)
           /\ written' = written \cup {<<row, c>> : c \in x..(endX - 1)}
           /\ \A cell \in AllCells :
                 IF cell[1] = row /\ cell[2] \in x..(endX - 1)
                    THEN fBitsPerPixel \in {4, 8} =>
                            rleDst'[cell[1]][cell[2]] = RunColour(b, cell[2] - x)
                    ELSE rleDst'[cell[1]][cell[2]] = rleDst[cell[1]][cell[2]]
    ]_vars

\* C10 witness: a run of 5 pixels started at column 1 of a 2-pixel row was
\* truncated to one pixel
C10_Witness ==
    /\ lastOp.kind = "run"
    /\ fBitsPerPixel = 4
    /\ lastOp.flag = 5
    /\ lastOp.task # 0
    /\ lastOp.x0 = 1
    /\ lastOp.count = 1
    /\ x = rleWidth

\* the first step of decodeRLE has run and no opcode was handled yet, or
\* decodeRLE has returned
RleLoaded == rlePc \in {"loop", "done"}

\* the destination as the caller handed it over
RleDstUntouched ==
    \A r \in DOMAIN rleDst : \A c \in DOMAIN rleDst[r] : rleDst[r][c] = Garbage

\* C27: when the stream yields no byte of RLE data decodeRLE returns
\* InvalidInput before the destination is zeroed or modified; when it yields
\* at least one byte but fewer than rleByteCount decoding goes on over the
\* bytes obtained.
C27_ZeroBytesInvalid ==
    /\ (RleLoaded /\ totalBytes = 0) =>
          /\ rlePc = "done"
          /\ rleResult = kInvalidInput
          /\ RleDstUntouched
    /\ (RleLoaded /\ numOps = 0 /\ totalBytes > 0) => rlePc = "loop"

\* the part of C27 on a short read of at least one byte: the destination is
\* zeroed and the loop is entered
C27_ShortReadContinues ==
    (RleLoaded /\ numOps = 0 /\ totalBytes > 0) =>
        /\ rlePc = "loop"
        /\ rleDst = ZeroDst

\* what decodeRLE does with no byte: the destination is zeroed and the first
\* test of the loop returns IncompleteInput
C27_ZeroBytesIncomplete ==
    (RleLoaded /\ totalBytes = 0) =>
        /\ rleDst = ZeroDst
        /\ rlePc = "done" => rleResult = kIncompleteInput

\* the cursor row and the columns the last opcode wrote at
OpWroteAt == {<<lastOp.y0, c>> : c \in lastOp.x0..(lastOp.x0 + lastOp.count - 1)}

\* C25: every pixel decodeRLE writes, through setRLEPixel or setRLE24Pixel,
\* has 0 <= x < width and 0 <= y < height, so the destination row computed
\* from y under either row order lies in [0, height).
C25_WritesInsideImage ==
    /\ ~oobWrite
    /\ \A cell \in OpWroteAt :
          /\ 0 <= cell[2] /\ cell[2] < rleWidth
          /\ 0 <= cell[1] /\ cell[1] < rleHeight
          /\ RleRow(cell[1]) \in 0..(rleHeight - 1)
          /\ <<RleRow(cell[1]), cell[2]>> \in written

\* C25 witness: an absolute run that started inside the last cursor row
\* filled the row up to its last column
C25_Witness ==
    /\ lastOp.kind = "absolute"
    /\ lastOp.count > 0
    /\ lastOp.x0 > 0
    /\ lastOp.y0 = rleHeight - 1
    /\ lastOp.x0 + lastOp.count = rleWidth
    /\ <<0, rleWidth - 1>> \in written

\* C25 witness: on the last cursor row of a bottom-up image, destination
\* row 0, an encoded run longer than what is left of the row was cut at
\* the last column
C25_WitnessClippedRun ==
    /\ lastOp.kind = "run"
    /\ fRowOrder = kBottomUp_RowOrder
    /\ rleHeight = MaxHeight
    /\ lastOp.y0 = rleHeight - 1
    /\ lastOp.x0 + lastOp.flag > rleWidth
    /\ lastOp.count > 0
    /\ x = rleWidth

\* the bytes of the buffer an accepted absolute run takes: the pair, the
\* data, the padding byte
AbsRunBytes(task) ==
    LET rowBytes == compute_row_bytes(task, fBitsPerPixel)
    IN 2 + rowBytes + AbsPadding(rowBytes)

\* C26: the read cursor currByte never exceeds the number of bytes loaded
\* from the stream: currByte <= totalBytes at every opcode boundary, every
\* byte read from the buffer is at an index < totalBytes, and the padding
\* byte of an absolute run is skipped only when it lies inside the loaded
\* bytes.
C26_CursorInsideLoaded ==
    /\ totalBytes <= fRLEBytes
    /\ RleLoaded =>
          /\ 0 <= currByte /\ currByte <= totalBytes
          /\ lastOp.c0 <= currByte
          \* the bytes the last opcode read are lastOp.c0 .. currByte - 1
          /\ \A i \in lastOp.c0..(currByte - 1) : i < totalBytes
    /\ (lastOp.kind = "absolute" /\ lastOp.ok) =>
          /\ currByte = lastOp.c0 + AbsRunBytes(lastOp.task)
          /\ lastOp.c0 + AbsRunBytes(lastOp.task) - 1 < totalBytes

\* C26 witness: the padding byte of an absolute run of odd length is the
\* last byte loaded
C26_Witness ==
    /\ lastOp.kind = "absolute" /\ lastOp.ok
    /\ ~SkIsAlign2(compute_row_bytes(lastOp.task, fBitsPerPixel))
    /\ currByte = totalBytes
    /\ rlePc = "loop"

\* C26 witness: an absolute run whose data is loaded and whose padding byte
\* is not is turned down before any of its data is read
C26_WitnessPaddingMissing ==
    /\ lastOp.kind = "absolute" /\ ~lastOp.ok
    /\ rleResult = kIncompleteInput
    /\ lastOp.x0 + lastOp.task <= rleWidth
    /\ totalBytes - (lastOp.c0 + 2) = compute_row_bytes(lastOp.task, fBitsPerPixel)
    /\ currByte = lastOp.c0 + 2

\* line 413: SkASSERT(infoBytesRemaining > 52)
AlphaMaskAssert(infoBytesRemaining) == infoBytesRemaining > 52

\* line 414: get_int(iBuffer.get(), 48) reads bytes 48..51 of the
\* infoBytesRemaining bytes of iBuffer (line 186-195)
AlphaMaskReadInside(infoBytesRemaining) == 48 + 4 <= infoBytesRemaining

\* the factory returned a decoder for a header whose alpha mask it read
AlphaMaskWasRead ==
    /\ hdrPc = "done"
    /\ codec # NULL
    /\ ReadsAlphaMask(HeaderTypeOf(header.infoBytes), header.isIco)

\* C28: every header that reaches the alpha-mask read (InfoV3 inside an
\* ICO, InfoV4, InfoV5) satisfies the assertion infoBytesRemaining > 52
\* placed before the read, and the four bytes read at offset 48 lie inside
\* the bytes read for the info header.
C28_AlphaMaskAssertHolds ==
    AlphaMaskWasRead =>
        /\ AlphaMaskAssert(header.infoBytes - 4)
        /\ AlphaMaskReadInside(header.infoBytes - 4)

\* the part of C28 on the read: the four bytes at offset 48 are inside the
\* info header for every header whose alpha mask is read
C28_AlphaMaskReadInside ==
    AlphaMaskWasRead => AlphaMaskReadInside(header.infoBytes - 4)

\* the assertion fails for the InfoV3 header of an ICO image and for no
\* other header
C28_AssertFailsForV3Ico ==
    AlphaMaskWasRead =>
        (~AlphaMaskAssert(header.infoBytes - 4)
            <=> (header.infoBytes = kBmpInfoV3Bytes /\ header.isIco))

\* C29: after every successful header parse, inputFormat = BitMask implies
\* bitsPerPixel is 16 or 32.
C29_BitMaskIs16Or32 ==
    (hdrPc = "done" /\ codec # NULL
        /\ codec.fInputFormat = kBitMask_BitmapInputFormat)
    => codec.fBitsPerPixel \in {16, 32}

\* what the parse does ensure: a BitMask decoder of a depth other than 16
\* comes from a header whose compression field is BitMasks or
\* AlphaBitMasks, at any of the accepted depths, with masks that fit in
\* the depth
C29_BitMaskDepths ==
    (hdrPc = "done" /\ codec # NULL
        /\ codec.fInputFormat = kBitMask_BitmapInputFormat)
    => /\ codec.fBitsPerPixel \in {1, 2, 4, 8, 16, 24, 32}
       /\ codec.fBitsPerPixel # 16 =>
              header.compression \in {kBitMasks_BitmapCompressionMethod,
                                      kAlphaBitMasks_BitmapCompressionMethod}
       /\ \A ch \in {"red", "green", "blue", "alpha"} :
              \A i \in codec.fMasks[ch] : i < codec.fBitsPerPixel

\* the last call was made on a BMP decoder and got as far as
\* createColorTable (line 535)
ReachedCreateColorTable ==
    /\ CallMade
    /\ codec.kind = "bmp"
    /\ CallRewound /\ CallSameDimensions /\ CallConversionAllowed

\* lines 600-605: the offsets into cBuffer createColorTable reads for the
\* numColors entries of the table of the last call
TableOffsetsRead ==
    IF codec.fBitsPerPixel <= 8
        THEN LET n == NumColorsFor(header.numColors, codec.fBitsPerPixel)
                 fourth == IF ReadsFourthByte(gpCall.dstInfo.alphaType)
                              THEN {3} ELSE {}
             IN {i * codec.fBytesPerColor + k :
                    i \in 0..(n - 1), k \in {0, 1, 2} \cup fourth}
        ELSE {}

\* the bytes cBuffer holds: numColors * bytesPerColor (lines 573-574)
TableBufferBytes ==
    IF codec.fBitsPerPixel <= 8
        THEN NumColorsFor(header.numColors, codec.fBitsPerPixel)
                * codec.fBytesPerColor
        ELSE 0

\* C30: createColorTable reads the fourth byte of an entry only when
\* bytesPerColor is 4: for a decoder with bytesPerColor = 3 every getPixels
\* call that reaches createColorTable has destination alpha type Opaque, so
\* no byte at or beyond numColors * bytesPerColor of the buffer is read.
C30_ThreeByteCallsAreOpaque ==
    (ReachedCreateColorTable /\ codec.fBytesPerColor = 3) =>
        /\ gpCall.dstInfo.alphaType = kOpaque_SkAlphaType
        /\ \A k \in TableOffsetsRead : k < TableBufferBytes

\* C30 as amended: for a decoder with bytesPerColor = 3 every getPixels call
\* in which createColorTable reads a colour table (at most 8 bits per
\* pixel) has destination alpha type Opaque, so the fourth byte of no entry
\* and no byte at or beyond numColors * bytesPerColor is read; a call with
\* another destination alpha type is made on a decoder of 32 bits per pixel
\* inside an ICO, for which createColorTable reads no byte.
C30_ThreeByteTablesAreOpaque ==
    (ReachedCreateColorTable /\ codec.fBytesPerColor = 3) =>
        /\ codec.fBitsPerPixel <= 8 =>
              /\ gpCall.dstInfo.alphaType = kOpaque_SkAlphaType
              /\ ~ReadsFourthByte(gpCall.dstInfo.alphaType)
        /\ gpCall.dstInfo.alphaType # kOpaque_SkAlphaType =>
              /\ codec.fIsIco /\ codec.fBitsPerPixel = 32
              /\ colorTable.read = 0
        /\ \A k \in TableOffsetsRead : k < TableBufferBytes

\* C30 witness: the two entries of three bytes of a 1-bit OS2V1 image were
\* read for an Opaque destination
C30_Witness ==
    /\ ReachedCreateColorTable
    /\ codec.fBytesPerColor = 3
    /\ codec.fBitsPerPixel = 1
    /\ tableBuilt
    /\ colorTable.read = 6
    /\ TableOffsetsRead = 0..5
    /\ colorTable.entries[1] = <<255, 0, 0, 255>>

\* C30 witness: a 32-bit OS2V1 image inside an ICO was decoded into a
\* destination that is not Opaque
C30_WitnessIco32 ==
    /\ ReachedCreateColorTable
    /\ codec.fBytesPerColor = 3
    /\ gpCall.dstInfo.alphaType = kPremul_SkAlphaType
    /\ tableBuilt
    /\ TableOffsetsRead = {}

====
